---- MODULE Spec2Model ----
(***************************************************************************)
(* Order-book reconstruction engine of src/app/page.tsx (component Page):  *)
(* the depth-diff sequencer (applyDepth), the snapshot loader and its      *)
(* buffered replay (loadSnapshot), the three push channels and their       *)
(* reconnect timers (openSockets, closeSockets), the symbol-switch effect  *)
(* and the frame-coalesced projection (queueFlush, flushView).             *)
(*                                                                         *)
(* Prices are the canonical price strings of the feed, modelled by their   *)
(* tick number; quantities are the numbers `+q` yields.  Update ids are    *)
(* small naturals.  Counters that only feed the status bar (messages per   *)
(* second, update count, reconnect count, last-update time) are left out.  *)
(***************************************************************************)
EXTENDS Integers, Sequences, FiniteSets, Bags, TLC

(***************************************************************************)
(* Bounds of the model.                                                    *)
(***************************************************************************)
MaxGen == 2          \* session generations explored
MaxId == 3           \* largest update id of a diff or a snapshot
MaxBuf == 2          \* pending-buffer length explored
MaxPrice == 1        \* price ticks 1..MaxPrice of a scripted run
MaxQty == 2          \* quantities 0..MaxQty of a scripted run
MaxChanges == 1      \* changes per side of one message
MaxSock == 5         \* connections alive at once
MaxTimers == 2       \* reconnect timers pending at once
MaxSteps == 2        \* diffs of a scripted gap-free run

Symbols == {"X", "Y"}
Channels == {"depth", "trades", "ticker"}
Gens == 1..MaxGen
Prices == 1..MaxPrice
Qtys == 0..MaxQty
Ids == 0..MaxId

(***************************************************************************)
(* Generic helpers.                                                        *)
(***************************************************************************)
SeqsUpTo(S, n) == UNION {[1..k -> S] : k \in 0..n}

RECURSIVE SumOver(_, _)
SumOver(B, S) ==
  IF S = {} THEN 0
  ELSE LET x == CHOOSE y \in S : TRUE IN B[x] + SumOver(B, S \ {x})

\* number of copies in bag B of the elements satisfying P
CountIn(B, P(_)) == SumOver(B, {x \in DOMAIN B : P(x)})

\* the sub-bag of the elements satisfying P
Restrict(B, P(_)) == [x \in {y \in DOMAIN B : P(y)} |-> B[x]]

\* the bag of F(x) for the copies x of B
BagMap(B, F(_)) ==
  LET img == {F(x) : x \in DOMAIN B}
  IN [y \in img |-> SumOver(B, {x \in DOMAIN B : F(x) = y})]

One(x) == SetToBag({x})

(***************************************************************************)
(* Inputs: the messages of the feed.                                       *)
(***************************************************************************)
ChangeListsOf(P, Q) == SeqsUpTo(P \X Q, MaxChanges)

\* a depth diff {U, u, b, a} of the exchange: U <= u
Diff(U, u, b, a) == [U |-> U, u |-> u, b |-> b, a |-> a]

\* payloads <<b, a>>: changes on one side at a time
OneSided(L) == {<<bl, <<>>>> : bl \in L} \cup {<<<<>>, al>> : al \in L}

\* the diffs and snapshots of the sequencer's specification: any id range in
\* any order, deleting level 1 or setting it to 1
SeqPayloads == OneSided(ChangeListsOf({1}, {0, 1}))

DiffEvents ==
  {Diff(r[1], r[2], pl[1], pl[2]) :
     r \in {x \in (1..MaxId) \X (1..MaxId) : x[1] <= x[2]},
     pl \in SeqPayloads}

\* a depth snapshot {lastUpdateId, bids, asks}
Snapshots ==
  {[lastUpdateId |-> i, bids |-> pl[1], asks |-> pl[2]] :
     i \in Ids, pl \in SeqPayloads}

VARIABLES
  symbol,        \* useState symbol
  session,       \* sessionRef
  bids, asks,    \* bidsRef, asksRef: price key -> quantity
  lastUpdateId,  \* lastUpdateIdRef
  buffer,        \* bufferRef
  ready,         \* readyRef
  buffered,      \* useState buffered
  fetches,       \* bag of loadSnapshot calls: awaiting fetch, or retry timer
  sockets,       \* bag of live WebSocket objects
  timers,        \* bag of pending reconnect timers
  connected,     \* useState connected
  error,         \* useState error
  bestTicker,    \* bestTickerRef
  trades,        \* useState trades
  tradeTimers,   \* bag of pending isNew-clear timers (trade ids)
  processed,     \* useState processed
  rafId,         \* rafIdRef: nonzero while a flushView frame callback is pending
  displayRows,   \* useState displayRows
  frame,         \* bag of pending flushView callbacks: the displayRows of each
  outcome,       \* observation: what the last sequencing step did
  script,        \* observation: the scripted snapshot and diffs of a replay run
  backoff,       \* observation: per channel, the closes since the last open
                 \* and the delay of the last reconnect timer armed
  hook           \* the state of one useBinanceSocket instance

vars == <<symbol, session, bids, asks, lastUpdateId, buffer, ready, buffered,
          fetches, sockets, timers, connected, error, bestTicker, trades,
          tradeTimers, processed, rafId, displayRows, frame, outcome, script,
          backoff, hook>>

pageVars == <<symbol, session, bids, asks, lastUpdateId, buffer, ready,
              buffered, fetches, sockets, timers, connected, error, bestTicker,
              trades, tradeTimers, processed, rafId, displayRows, frame,
              outcome, script, backoff>>

seqVars == <<bids, asks, lastUpdateId, buffer, ready, buffered>>
connVars == <<sockets, timers, connected, error>>
viewVars == <<processed, rafId, displayRows, frame>>
tradeVars == <<trades, tradeTimers>>

(***************************************************************************)
(* OrderBookStore: the two Map<string, number>.                            *)
(***************************************************************************)
EmptyMap == <<>>

MapSet(m, p, n) == [k \in DOMAIN m \cup {p} |-> IF k = p THEN n ELSE m[k]]

MapDelete(m, p) == [k \in DOMAIN m \ {p} |-> m[k]]

\* one [p, q] of a diff: n === 0 deletes, anything else sets
MergeDeltaKeepZero(m, p, n) == MapSet(m, p, n)
MergeDelta(m, p, n) == IF n = 0 THEN MapDelete(m, p) ELSE MapSet(m, p, n)

RECURSIVE MergeDeltas(_, _)
MergeDeltas(m, changes) ==
  IF changes = <<>> THEN m
  ELSE MergeDeltas(MergeDelta(m, Head(changes)[1], Head(changes)[2]),
                   Tail(changes))

\* one [p, q] of a snapshot: only n > 0 is stored
LoadLevelAny(m, p, n) == MapSet(m, p, n)
LoadLevel(m, p, n) == IF n > 0 THEN MapSet(m, p, n) ELSE m

RECURSIVE LoadLevels(_, _)
LoadLevels(m, entries) ==
  IF entries = <<>> THEN m
  ELSE LoadLevels(LoadLevel(m, Head(entries)[1], Head(entries)[2]),
                  Tail(entries))

(***************************************************************************)
(* DiffSequencer: the tests of applyDepth and of the buffered replay.      *)
(***************************************************************************)
\* applyDepth: ev.u <= lastUpdateIdRef.current
IsStaleStrict(ev, last) == ev.u < last
IsStale(ev, last) == ev.u <= last

\* applyDepth: ev.U > lastUpdateIdRef.current + 1
LiveGapLoose(ev, last) == ev.U > last + 2
LiveGap(ev, last) == ev.U > last + 1

\* loadSnapshot: ev.U <= last + 1 && ev.u >= last + 1
IsBridging(ev, last) == ev.U <= last + 1 /\ ev.u >= last + 1

\* loadSnapshot: ev.u >= last
EndsAfter(ev, last) == ev.u > last
EndsAtOrAfter(ev, last) == ev.u >= last

\* loadSnapshot replay loop: ev.U > lastUpdateIdRef.current + 1
ReplayGapLoose(ev, last) == ev.U > last + 2
ReplayGap(ev, last) == ev.U > last + 1

\* buf.sort((x, y) => x.U - y.U): stable, ascending in U
SortByUNone(s) == s

RECURSIVE InsertByU(_, _)
InsertByU(s, ev) ==
  IF s = <<>> THEN <<ev>>
  ELSE IF Head(s).U <= ev.U THEN <<Head(s)>> \o InsertByU(Tail(s), ev)
  ELSE <<ev>> \o s

RECURSIVE SortByU(_)
SortByU(s) ==
  IF s = <<>> THEN <<>>
  ELSE InsertByU(SortByU(SubSeq(s, 1, Len(s) - 1)), s[Len(s)])

\* buf.findIndex(P), given the indexes hits at which P holds: the first of
\* them, 0 for the code's -1
FindIndex(hits) ==
  IF hits = {} THEN 0 ELSE CHOOSE i \in hits : \A j \in hits : i <= j

\* the start of the replay: the bridging event, else the first one ending at
\* or after the snapshot, else 0
StartIndex(buf, last) ==
  LET idx == FindIndex({i \in 1..Len(buf) : IsBridging(buf[i], last)})
  IN IF idx # 0 THEN idx
     ELSE FindIndex({i \in 1..Len(buf) : EndsAtOrAfter(buf[i], last)})

\* a parsed depth message carries its ask changes: for (... of ev.a) does not
\* throw
HasAsks(ev) == "a" \in DOMAIN ev

\* the replay loop from index i: it ends at the end of the buffer, at a gap,
\* or by the TypeError of a message without ask changes, its bid changes
\* merged already
RECURSIVE Replay(_, _, _, _, _)
Replay(buf, i, b, a, last) ==
  IF i > Len(buf)
  THEN [bids |-> b, asks |-> a, last |-> last, gap |-> FALSE, threw |-> FALSE]
  ELSE IF ReplayGap(buf[i], last)
  THEN [bids |-> b, asks |-> a, last |-> last, gap |-> TRUE, threw |-> FALSE]
  ELSE IF ~HasAsks(buf[i])
  THEN [bids |-> MergeDeltas(b, buf[i].b), asks |-> a, last |-> last,
        gap |-> FALSE, threw |-> TRUE]
  ELSE Replay(buf, i + 1, MergeDeltas(b, buf[i].b), MergeDeltas(a, buf[i].a),
              buf[i].u)

\* loadSnapshot after the stale check: the store, the id and whether the
\* replay met a gap
Reconcile(s, buf0) ==
  LET b0 == LoadLevels(EmptyMap, s.bids)
      a0 == LoadLevels(EmptyMap, s.asks)
      buf == SortByU(buf0)
      idx == StartIndex(buf, s.lastUpdateId)
  IN IF idx = 0
     THEN [bids |-> b0, asks |-> a0, last |-> s.lastUpdateId, gap |-> FALSE,
           threw |-> FALSE]
     ELSE Replay(buf, idx, b0, a0, s.lastUpdateId)

(***************************************************************************)
(* ViewProjector: flushView.  A number that is a quotient is kept as the   *)
(* pair <<numerator, denominator>>.                                        *)
(***************************************************************************)
DefaultRows == 20
SanityCeilingLoose == 10 * 10
SanityCeiling == 10

\* !isFinite(spread) || spread <= 0
CrossedStrict(spread) == spread < 0
Crossed(spread) == spread <= 0

\* parseFloat of a price key
PriceOf(p) == p

MaxOf(S) == CHOOSE x \in S : \A y \in S : y <= x
MinOf(S) == CHOOSE x \in S : \A y \in S : x <= y

RECURSIVE Descending(_)
Descending(S) ==
  IF S = {} THEN <<>> ELSE <<MaxOf(S)>> \o Descending(S \ {MaxOf(S)})

RECURSIVE Ascending(_)
Ascending(S) ==
  IF S = {} THEN <<>> ELSE <<MinOf(S)>> \o Ascending(S \ {MinOf(S)})

Slice(s, n) == SubSeq(s, 1, IF Len(s) < n THEN Len(s) ELSE n)

\* the rows of one side: price, amount and the running total
RECURSIVE Rows(_, _, _)
Rows(keys, m, running) ==
  IF keys = <<>> THEN <<>>
  ELSE LET k == Head(keys)
           t == running + m[k]
       IN <<[price |-> PriceOf(k), amount |-> m[k], total |-> t]>>
          \o Rows(Tail(keys), m, t)

LastTotalFirst(rows) == IF rows = <<>> THEN 1 ELSE rows[1].total
LastTotal(rows) == IF rows = <<>> THEN 1 ELSE rows[Len(rows)].total

EmptyProjectionSpread ==
  [bids |-> <<>>, asks |-> <<>>, maxBidTotal |-> 1, maxAskTotal |-> 1,
   spread |-> 1, spreadPercent |-> <<0, 1>>, midPrice |-> <<0, 1>>]
EmptyProjection ==
  [bids |-> <<>>, asks |-> <<>>, maxBidTotal |-> 1, maxAskTotal |-> 1,
   spread |-> 0, spreadPercent |-> <<0, 1>>, midPrice |-> <<0, 1>>]

QuoteProjection(bid, ask) ==
  [bids |-> <<>>, asks |-> <<>>, maxBidTotal |-> 1, maxAskTotal |-> 1,
   spread |-> ask - bid,
   spreadPercent |-> IF ask + bid > 0 THEN <<200 * (ask - bid), ask + bid>>
                     ELSE <<0, 1>>,
   midPrice |-> <<ask + bid, 2>>]

FlushView(b, a, ticker, rows) ==
  IF DOMAIN b = {} \/ DOMAIN a = {} THEN EmptyProjection
  ELSE
    LET bestBid == MaxOf({PriceOf(p) : p \in DOMAIN b})
        bestAsk == MinOf({PriceOf(p) : p \in DOMAIN a})
        spread == bestAsk - bestBid
    IN IF Crossed(spread)
       THEN IF ticker.ask > ticker.bid
            THEN QuoteProjection(ticker.bid, ticker.ask)
            ELSE EmptyProjection
       ELSE
         \* spreadPercent = spread / midPrice * 100 > 10
         IF 200 * spread > SanityCeiling * (bestAsk + bestBid)
         THEN EmptyProjection
         ELSE
           LET bidRows == Rows(Slice(Descending(DOMAIN b), rows), b, 0)
               askRows == Rows(Slice(Ascending(DOMAIN a), rows), a, 0)
           IN [bids |-> bidRows, asks |-> askRows,
               maxBidTotal |-> LastTotal(bidRows),
               maxAskTotal |-> LastTotal(askRows),
               spread |-> spread,
               spreadPercent |-> <<200 * spread, bestAsk + bestBid>>,
               midPrice |-> <<bestAsk + bestBid, 2>>]

(***************************************************************************)
(* useBinanceSocket(symbol): the hook of the first visualizer, with a      *)
(* depth and a trades stream.  hook is the record of its refs and states:  *)
(* sockets is the bag of live WebSocket objects [ch, sym, st, ref], sym    *)
(* the symbol of the connectWebSocket that made it, ref whether            *)
(* wsRefs.current[ch] points at it; timers is the bag of pending reconnect *)
(* timers [ch, sym, delay, cur], cur telling whether                       *)
(* reconnectTimeouts.current[ch] holds its handle; attempts is             *)
(* reconnectAttempts.current.  orderBook and trades are kept as the set of *)
(* symbols whose messages were merged into them since they were last       *)
(* reset.  The isNew flash and the counters of the status bar are left out.*)
(***************************************************************************)
MaxAttempt == 7      \* closes in a row on one stream
MaxHookLive == 4     \* sockets and timers of the hook alive at once

HookChannels == {"depth", "trades"}

BaseDelay == 1000
MaxDelay == 30000

\* Math.min(1000 * Math.pow(2, attempt), 30000)
BackoffDelayUncapped(attempt) == BaseDelay * 2^attempt
BackoffDelay(attempt) ==
  IF BaseDelay * 2^attempt < MaxDelay THEN BaseDelay * 2^attempt ELSE MaxDelay

HookSock(ch, sym, st, ref) == [ch |-> ch, sym |-> sym, st |-> st, ref |-> ref]

HookTimer(ch, sym, delay, cur) ==
  [ch |-> ch, sym |-> sym, delay |-> delay, cur |-> cur]

InitHook ==
  [phase |-> "created", symbol |-> "X", sockets |-> EmptyBag,
   timers |-> EmptyBag, attempts |-> [ch \in HookChannels |-> 0],
   connected |-> FALSE, error |-> "none", orderBook |-> {}, trades |-> {}]

\* a setState of the hook: dropped once the component is unmounted
HookSet(new, old) == IF hook.phase = "unmounted" THEN old ELSE new

\* the effect cleanup: ws.close() on the referenced sockets that are OPEN,
\* clearTimeout on the handles of reconnectTimeouts.current
HookCleanedSockets(socks) ==
  LET CloseIt(s) == IF s.ref /\ s.st = "open" THEN [s EXCEPT !.st = "closing"]
                    ELSE s
  IN BagMap(socks, CloseIt)

HookClearedTimers(tms) == LET Kept(t) == ~t.cur IN Restrict(tms, Kept)

\* wsRefs.current[ch] = connectWebSocket(ch) for the channels chans
HookConnect(socks, chans, sym) ==
  LET Drop(s) == IF s.ch \in chans THEN [s EXCEPT !.ref = FALSE] ELSE s
  IN BagMap(socks, Drop)
     (+) SetToBag({HookSock(ch, sym, "connecting", TRUE) : ch \in chans})

\* useEffect(..., [connectWebSocket, symbol]): on mount and on every symbol
\* change, the cleanup of the previous run first
HookEffect(sym) ==
  /\ \/ hook.phase = "created" /\ sym = hook.symbol
     \/ hook.phase = "mounted" /\ sym # hook.symbol
  /\ BagCardinality(hook.sockets) + BagCardinality(hook.timers)
       + Cardinality(HookChannels) <= MaxHookLive
  /\ LET socks == IF hook.phase = "mounted"
                  THEN HookCleanedSockets(hook.sockets) ELSE hook.sockets
         tms == IF hook.phase = "mounted"
                THEN HookClearedTimers(hook.timers) ELSE hook.timers
     IN hook' = [hook EXCEPT !.phase = "mounted",
                             !.symbol = sym,
                             !.orderBook = {},
                             !.trades = {},
                             !.sockets = HookConnect(socks, HookChannels, sym),
                             !.timers = tms]
  /\ UNCHANGED pageVars

\* the component unmounts: the cleanup alone
HookUnmount ==
  /\ hook.phase = "mounted"
  /\ hook' = [hook EXCEPT !.phase = "unmounted",
                          !.sockets = HookCleanedSockets(hook.sockets),
                          !.timers = HookClearedTimers(hook.timers)]
  /\ UNCHANGED pageVars

\* ws.onopen
HookOpen(s) ==
  /\ BagIn(s, hook.sockets) /\ s.st = "connecting"
  /\ hook' = [hook EXCEPT
                !.sockets = (hook.sockets (-) One(s))
                              (+) One([s EXCEPT !.st = "open"]),
                !.connected = HookSet(TRUE, hook.connected),
                !.error = HookSet("none", hook.error),
                !.attempts[s.ch] = 0]
  /\ UNCHANGED pageVars

\* ws.onerror
HookError(s) ==
  /\ BagIn(s, hook.sockets)
  /\ hook' = [hook EXCEPT !.error = HookSet("connection error", hook.error)]
  /\ UNCHANGED pageVars

\* reconnectTimeouts.current[ch] = setTimeout(..., delay): the handle held
\* before is overwritten, its timer stays pending
HookArm(tms, s, delay) ==
  LET Demote(t) == IF t.ch = s.ch THEN [t EXCEPT !.cur = FALSE] ELSE t
  IN BagMap(tms, Demote) (+) One(HookTimer(s.ch, s.sym, delay, TRUE))

\* ws.onclose: the close event of a connection, whoever closed it
HookClose(s) ==
  /\ BagIn(s, hook.sockets)
  /\ hook' = [hook EXCEPT
                !.sockets = hook.sockets (-) One(s),
                !.connected = HookSet(FALSE, hook.connected),
                !.timers = HookArm(hook.timers, s,
                                   BackoffDelay(hook.attempts[s.ch])),
                !.attempts[s.ch] = hook.attempts[s.ch] + 1]
  /\ UNCHANGED pageVars

\* the reconnect timer: wsRefs.current[type] = connectWebSocket(type), the
\* connectWebSocket of the render that made the closed connection
HookReconnect(t) ==
  /\ BagIn(t, hook.timers)
  /\ hook' = [hook EXCEPT
                !.timers = hook.timers (-) One(t),
                !.sockets = HookConnect(hook.sockets, {t.ch}, t.sym)]
  /\ UNCHANGED pageVars

\* ws.onmessage of a depth connection: setOrderBook merges the changes
HookDepthMessage(s) ==
  /\ BagIn(s, hook.sockets) /\ s.ch = "depth" /\ s.st = "open"
  /\ hook' = [hook EXCEPT
                !.orderBook = HookSet(hook.orderBook \cup {s.sym},
                                      hook.orderBook)]
  /\ UNCHANGED pageVars

\* ws.onmessage of a trades connection: setTrades prepends the trade
HookTradeMessage(s) ==
  /\ BagIn(s, hook.sockets) /\ s.ch = "trades" /\ s.st = "open"
  /\ hook' = [hook EXCEPT
                !.trades = HookSet(hook.trades \cup {s.sym}, hook.trades)]
  /\ UNCHANGED pageVars

(***************************************************************************)
(* The reconnect delays of Page.openSockets and their observation: closes  *)
(* counts, per channel, the closes of the current generation since the     *)
(* channel last opened, delay is the delay of the last timer it armed.     *)
(* Nothing is recorded while the observation is off.                       *)
(***************************************************************************)
\* base + Math.floor(Math.random() * spread)
DelayBase(ch) ==
  CASE ch = "depth" -> 800 [] ch = "trades" -> 1000 [] ch = "ticker" -> 1500

DelaySpread(ch) ==
  CASE ch = "depth" -> 800 [] ch = "trades" -> 1200 [] ch = "ticker" -> 1200

\* the least and the largest delay Math.random() can give
CloseDelays(ch) == {DelayBase(ch), DelayBase(ch) + DelaySpread(ch) - 1}

NoBackoff ==
  [on |-> FALSE, closes |-> [ch \in Channels |-> 0],
   delay |-> [ch \in Channels |-> 0]]

ObservedClose(ch, d) ==
  IF backoff.on
  THEN [backoff EXCEPT !.closes[ch] = backoff.closes[ch] + 1, !.delay[ch] = d]
  ELSE backoff

ObservedOpen(ch) ==
  IF backoff.on THEN [backoff EXCEPT !.closes[ch] = 0] ELSE backoff

ObservedSwitch == [NoBackoff EXCEPT !.on = backoff.on]

(***************************************************************************)
(* The state after construction of Page.                                   *)
(***************************************************************************)
NoScript == [snap |-> [lastUpdateId |-> 0, bids |-> <<>>, asks |-> <<>>],
             diffs |-> <<>>, pos |-> 0]

InitPage ==
  /\ symbol = "X"
  /\ session = 0
  /\ bids = EmptyMap
  /\ asks = EmptyMap
  /\ lastUpdateId = 0
  /\ buffer = <<>>
  /\ ready = FALSE
  /\ buffered = 0
  /\ fetches = EmptyBag
  /\ sockets = EmptyBag
  /\ timers = EmptyBag
  /\ connected = FALSE
  /\ error = "none"
  /\ bestTicker = [bid |-> 0, ask |-> 0]
  /\ trades = <<>>
  /\ tradeTimers = EmptyBag
  /\ processed = EmptyProjection
  /\ rafId = 0
  /\ displayRows = DefaultRows
  /\ frame = EmptyBag
  /\ outcome = "none"
  /\ hook = InitHook

Init == InitPage /\ script = NoScript /\ backoff = NoBackoff

(***************************************************************************)
(* queueFlush: one frame callback at most is pending.                      *)
(***************************************************************************)
\* if (rafIdRef.current) return
PendingNever(id) == FALSE
Pending(id) == id # 0

\* requestAnimationFrame(flushView) unless one is pending: the handle is
\* nonzero, the callback is the flushView of the caller's render
QueueFlush(rows) ==
  IF Pending(rafId)
  THEN UNCHANGED <<rafId, frame>>
  ELSE /\ rafId' = 1
       /\ frame' = frame (+) One(rows)

\* a frame callback runs: flushView
Flush ==
  \E rows \in BagToSet(frame) :
    /\ frame' = frame (-) One(rows)
    /\ rafId' = 0
    /\ processed' = FlushView(bids, asks, bestTicker, rows)
  /\ UNCHANGED <<symbol, session, seqVars, fetches, connVars, bestTicker,
                 tradeVars, displayRows, outcome, script, hook, backoff>>

(***************************************************************************)
(* SnapshotLoader: loadSnapshot(sym, session).  A call is a copy of        *)
(* [sym, gen, rows, st] in fetches: st = "fetch" while the request is      *)
(* awaited, "retry" while the 800 ms timer of the catch branch is pending. *)
(***************************************************************************)
Call(sym, gen, rows, st) == [sym |-> sym, gen |-> gen, rows |-> rows, st |-> st]

\* the response parsed: the body of loadSnapshot after the awaits
SnapshotOk(f, s) ==
  /\ BagIn(f, fetches) /\ f.st = "fetch"
  /\ IF f.gen # session
     THEN /\ fetches' = fetches (-) One(f)
          /\ UNCHANGED <<seqVars, rafId, frame, outcome>>
     ELSE LET r == Reconcile(s, buffer)
          IN /\ bids' = r.bids
             /\ asks' = r.asks
             /\ lastUpdateId' = r.last
             /\ buffered' = buffered
             /\ IF r.threw
                THEN /\ buffer' = SortByU(buffer)
                     /\ ready' = ready
                     /\ fetches' = (fetches (-) One(f))
                                      (+) One([f EXCEPT !.st = "retry"])
                     /\ UNCHANGED <<rafId, frame>>
                     /\ outcome' = "replayThrew"
                ELSE IF r.gap
                THEN /\ buffer' = <<>>
                     /\ ready' = FALSE
                     /\ fetches' = (fetches (-) One(f)) (+) One(f)
                     /\ UNCHANGED <<rafId, frame>>
                     /\ outcome' = "replayGap"
                ELSE /\ buffer' = <<>>
                     /\ ready' = TRUE
                     /\ fetches' = fetches (-) One(f)
                     /\ QueueFlush(f.rows)
                     /\ outcome' = "loaded"
  /\ UNCHANGED <<symbol, session, connVars, bestTicker, tradeVars, processed,
                 displayRows, script, hook, backoff>>

\* fetch or r.json() throws: the catch branch arms the retry timer
SnapshotFail(f) ==
  /\ BagIn(f, fetches) /\ f.st = "fetch"
  /\ fetches' = (fetches (-) One(f)) (+) One([f EXCEPT !.st = "retry"])
  /\ UNCHANGED <<symbol, session, seqVars, connVars, bestTicker, tradeVars,
                 viewVars, outcome, script, hook, backoff>>

\* a response without bids/asks: the maps are cleared, then the loop throws
SnapshotMalformed(f) ==
  /\ BagIn(f, fetches) /\ f.st = "fetch"
  /\ IF f.gen # session
     THEN /\ fetches' = fetches (-) One(f)
          /\ UNCHANGED <<bids, asks>>
     ELSE /\ fetches' = (fetches (-) One(f)) (+) One([f EXCEPT !.st = "retry"])
          /\ bids' = EmptyMap
          /\ asks' = EmptyMap
  /\ UNCHANGED <<symbol, session, lastUpdateId, buffer, ready, buffered,
                 connVars, bestTicker, tradeVars, viewVars, outcome, script,
                 hook, backoff>>

\* the retry timer's test: session === sessionRef.current
RetryGateAlways(gen, cur) == TRUE
RetryGateNever(gen, cur) == FALSE
RetryGate(gen, cur) == gen = cur

\* the 800 ms timer: refetch only for the current session
RetryFire(f) ==
  /\ BagIn(f, fetches) /\ f.st = "retry"
  /\ fetches' = IF RetryGate(f.gen, session)
                THEN (fetches (-) One(f)) (+) One([f EXCEPT !.st = "fetch"])
                ELSE fetches (-) One(f)
  /\ UNCHANGED <<symbol, session, seqVars, connVars, bestTicker, tradeVars,
                 viewVars, outcome, script, hook, backoff>>

(***************************************************************************)
(* DiffSequencer: applyDepth(ev, sym), called by the depth onmessage.      *)
(***************************************************************************)
\* what readyRef becomes on a gap
ReadyAfterGapKept == TRUE
ReadyAfterGap == FALSE

\* applyDepth on a gap: loadSnapshot(sym, sessionRef.current)
GapFetchNone(sym, gen, rows) == EmptyBag
GapFetch(sym, gen, rows) == One(Call(sym, gen, rows, "fetch"))

\* applyDepth: !readyRef.current
MustBufferNever(rdy) == FALSE
MustBufferAlways(rdy) == TRUE
MustBuffer(rdy) == ~rdy

ApplyDepth(ev, sym, rows) ==
  IF MustBuffer(ready)
  THEN /\ Len(buffer) < MaxBuf
       /\ buffer' = Append(buffer, ev)
       /\ buffered' = Len(buffer) + 1
       /\ outcome' = "buffered"
       /\ UNCHANGED <<bids, asks, lastUpdateId, ready, fetches, rafId, frame>>
  ELSE IF IsStale(ev, lastUpdateId)
  THEN /\ outcome' = "discarded"
       /\ UNCHANGED <<seqVars, fetches, rafId, frame>>
  ELSE IF LiveGap(ev, lastUpdateId)
  THEN /\ ready' = ReadyAfterGap
       /\ buffer' = <<>>
       /\ buffered' = 0
       /\ fetches' = fetches (+) GapFetch(sym, session, rows)
       /\ outcome' = "resync"
       /\ UNCHANGED <<bids, asks, lastUpdateId, rafId, frame>>
  ELSE IF ~HasAsks(ev)
  THEN /\ bids' = MergeDeltas(bids, ev.b)
       /\ outcome' = "threw"
       /\ UNCHANGED <<asks, lastUpdateId, buffer, ready, buffered, fetches,
                      rafId, frame>>
  ELSE /\ bids' = MergeDeltas(bids, ev.b)
       /\ asks' = MergeDeltas(asks, ev.a)
       /\ lastUpdateId' = ev.u
       /\ QueueFlush(rows)
       /\ outcome' = "applied"
       /\ UNCHANGED <<buffer, ready, buffered, fetches>>

(***************************************************************************)
(* StreamManager: openSockets / closeSockets.  A live WebSocket is a copy  *)
(* of [ch, sym, gen, rows, st, ref] in sockets: gen and sym are the        *)
(* session and symbol its handlers closed over, st its readyState, ref     *)
(* whether ws<Ch>Ref points at it.  A socket leaves the bag when it closes.*)
(* A pending reconnect timer is a copy of [ch, sym, gen, rows, cur] in     *)
(* timers: cur tells whether reconnectTimers.current[ch] holds its handle. *)
(***************************************************************************)
Sock(ch, sym, gen, rows, st, ref) ==
  [ch |-> ch, sym |-> sym, gen |-> gen, rows |-> rows, st |-> st, ref |-> ref]

Timer(ch, sym, gen, rows, cur) ==
  [ch |-> ch, sym |-> sym, gen |-> gen, rows |-> rows, cur |-> cur]

Unref(s) == [s EXCEPT !.ref = FALSE]
IsRef(s) == s.ref
NotRef(s) == ~s.ref
NotCur(t) == ~t.cur

\* the channels the reconnect timer of channel ch reopens: openSockets opens
\* all three
OpenedChannels(ch) == Channels

\* openSockets(sym, sess): a new connection per opened channel, each put in
\* its ref, the connection the ref held before staying as it is
OpenSockets(socks, chans, sym, sess, rows) ==
  LET Drop(s) == IF s.ch \in chans THEN Unref(s) ELSE s
  IN BagMap(socks, Drop)
     (+) SetToBag({Sock(ch, sym, sess, rows, "connecting", TRUE) : ch \in chans})

\* closeSockets: the referenced connections lose their handlers and are
\* closed, the referenced timers are cleared
ClosedSockets(socks) == Restrict(socks, NotRef)
ClearedTimers(tms) == Restrict(tms, NotCur)

\* the connection is established: only the depth socket has an onopen
WsOpen(s) ==
  /\ BagIn(s, sockets) /\ s.st = "connecting"
  /\ sockets' = (sockets (-) One(s)) (+) One([s EXCEPT !.st = "open"])
  /\ connected' = IF s.ch = "depth" THEN TRUE ELSE connected
  /\ backoff' = IF s.gen = session THEN ObservedOpen(s.ch) ELSE backoff
  /\ UNCHANGED <<symbol, session, seqVars, fetches, timers, error, bestTicker,
                 tradeVars, viewVars, outcome, script, hook>>

\* an error event: only the depth socket has an onerror
WsError(s) ==
  /\ BagIn(s, sockets)
  /\ error' = IF s.ch = "depth" THEN "depth connection error" ELSE error
  /\ UNCHANGED <<symbol, session, seqVars, fetches, sockets, timers, connected,
                 bestTicker, tradeVars, viewVars, outcome, script,
                 hook, backoff>>

\* reconnectTimers.current[ch] = setTimeout(...): the handle held before is
\* overwritten, its timer stays pending
ArmTimerNone(tms, s) == tms
ArmTimer(tms, s) ==
  LET Demote(t) == IF t.ch = s.ch THEN [t EXCEPT !.cur = FALSE] ELSE t
  IN BagMap(tms, Demote) (+) One(Timer(s.ch, s.sym, s.gen, s.rows, TRUE))

\* the close event of a connection: onclose
WsClose(s) ==
  /\ BagIn(s, sockets)
  /\ sockets' = sockets (-) One(s)
  /\ IF s.gen # session
     THEN UNCHANGED <<timers, connected, backoff>>
     ELSE /\ BagCardinality(timers) < MaxTimers
          /\ timers' = ArmTimer(timers, s)
          /\ connected' = IF s.ch = "depth" THEN FALSE ELSE connected
          /\ \E d \in CloseDelays(s.ch) : backoff' = ObservedClose(s.ch, d)
  /\ UNCHANGED <<symbol, session, seqVars, fetches, error, bestTicker,
                 tradeVars, viewVars, outcome, script, hook>>

\* the catch of a channel's try block: new WebSocket threw for the channels
\* failed, the last of them in the order depth, trades, ticker sets the error
FailedError(failed, old) ==
  IF "ticker" \in failed THEN "failed to open bookTicker socket"
  ELSE IF "trades" \in failed THEN "failed to open trades socket"
  ELSE IF "depth" \in failed THEN "failed to open depth socket"
  ELSE old

\* a reconnect timer fires: openSockets(sym, sessionRef.current), new
\* WebSocket throwing for the channels failed; at most cap connections live
ReconnectFireUpTo(t, cap, failed) ==
  /\ BagIn(t, timers)
  /\ failed \subseteq OpenedChannels(t.ch)
  /\ BagCardinality(sockets) + Cardinality(OpenedChannels(t.ch) \ failed)
       <= cap
  /\ timers' = timers (-) One(t)
  /\ sockets' = OpenSockets(sockets, OpenedChannels(t.ch) \ failed, t.sym,
                            session, t.rows)
  /\ error' = FailedError(failed, error)
  /\ UNCHANGED <<symbol, session, seqVars, fetches, connected,
                 bestTicker, tradeVars, viewVars, outcome, script,
                 hook, backoff>>

\* the same with every constructor succeeding
ReconnectFire(t) == ReconnectFireUpTo(t, MaxSock, {})

\* depth onmessage: a message JSON.parse accepts
DepthMessage(s, ev) ==
  /\ BagIn(s, sockets) /\ s.ch = "depth" /\ s.st = "open"
  /\ IF s.gen # session
     THEN UNCHANGED <<seqVars, fetches, rafId, frame, outcome>>
     ELSE ApplyDepth(ev, s.sym, s.rows)
  /\ UNCHANGED <<symbol, session, connVars, bestTicker, tradeVars, processed,
                 displayRows, script, hook, backoff>>

(***************************************************************************)
(* TradeFeed and best quote.                                               *)
(***************************************************************************)
KeepTrades == 49
MaxTradeId == 52
MaxTradeTimers == 2
MaxQuote == 2

TradeIds == 1..MaxTradeId
Quotes == [bid : 1..MaxQuote, ask : 1..MaxQuote]

\* [trade, ...prev.slice(0, 49)]
PushTradeUncapped(ts, trade) == <<trade>> \o ts
PushTrade(ts, trade) == <<trade>> \o Slice(ts, KeepTrades)

\* cur.map((x) => (x.id === trade.id ? { ...x, isNew: false } : x))
ClearFlagNone(ts, id) == ts
ClearFlag(ts, id) ==
  [i \in 1..Len(ts) |->
     IF ts[i].id = id THEN [ts[i] EXCEPT !.isNew = FALSE] ELSE ts[i]]

\* aggTrade onmessage
TradeMessage(s, id) ==
  /\ BagIn(s, sockets) /\ s.ch = "trades" /\ s.st = "open"
  /\ IF s.gen # session
     THEN UNCHANGED tradeVars
     ELSE /\ BagCardinality(tradeTimers) < MaxTradeTimers
          /\ trades' = PushTrade(trades, [id |-> id, isNew |-> TRUE])
          /\ tradeTimers' = tradeTimers (+) One(id)
  /\ UNCHANGED <<symbol, session, seqVars, fetches, connVars, bestTicker,
                 viewVars, outcome, script, hook, backoff>>

\* the 300 ms timer of one push
TradeClear(id) ==
  /\ BagIn(id, tradeTimers)
  /\ tradeTimers' = tradeTimers (-) One(id)
  /\ trades' = ClearFlag(trades, id)
  /\ UNCHANGED <<symbol, session, seqVars, fetches, connVars, bestTicker,
                 viewVars, outcome, script, hook, backoff>>

\* bookTicker onmessage
TickerMessage(s, q) ==
  /\ BagIn(s, sockets) /\ s.ch = "ticker" /\ s.st = "open"
  /\ bestTicker' = IF s.gen # session THEN bestTicker
                   ELSE [bid |-> q.bid, ask |-> q.ask]
  /\ UNCHANGED <<symbol, session, seqVars, fetches, connVars, tradeVars,
                 viewVars, outcome, script, hook, backoff>>

(***************************************************************************)
(* The symbol-switch effect of Page (it also runs once on mount).          *)
(***************************************************************************)
\* setTrades([])
SwitchTradesKept(ts) == ts
SwitchTrades(ts) == <<>>

\* the row slider: setDisplayRows; the callbacks of the open sockets and of
\* the running loadSnapshot calls keep the displayRows they closed over
MinRows == 5
RowChoices == {MinRows, DefaultRows}

SetDisplayRows(n) ==
  /\ n # displayRows
  /\ displayRows' = n
  /\ UNCHANGED <<symbol, session, seqVars, fetches, connVars, bestTicker,
                 tradeVars, processed, rafId, frame, outcome, script,
                 hook, backoff>>

NextSessionSame(g) == g
NextSession(g) == g + 1

\* new WebSocket throws for the channels failed
SymbolEffectWith(sym, failed) ==
  /\ session < MaxGen
  /\ \/ session = 0 /\ sym = symbol
     \/ session > 0 /\ sym # symbol
  /\ BagCardinality(ClosedSockets(sockets)) + Cardinality(Channels) <= MaxSock
  /\ symbol' = sym
  /\ session' = NextSession(session)
  /\ sockets' = OpenSockets(ClosedSockets(sockets), Channels \ failed, sym,
                            session', displayRows)
  /\ timers' = ClearedTimers(timers)
  /\ connected' = FALSE
  /\ error' = FailedError(failed, "none")
  /\ trades' = SwitchTrades(trades)
  /\ processed' = EmptyProjection
  /\ bids' = EmptyMap
  /\ asks' = EmptyMap
  /\ buffer' = <<>>
  /\ ready' = FALSE
  /\ buffered' = 0
  /\ fetches' = fetches (+) One(Call(sym, session', displayRows, "fetch"))
  /\ outcome' = "switched"
  /\ backoff' = ObservedSwitch
  /\ UNCHANGED <<lastUpdateId, bestTicker, tradeTimers, rafId, displayRows,
                 frame, script, hook>>

\* the same with every constructor succeeding
SymbolEffect(sym) == SymbolEffectWith(sym, {})

(***************************************************************************)
(* Specification of the sequencer: the connections stay up, the frame      *)
(* callback, trades and quotes are not scheduled.                          *)
(***************************************************************************)
Next ==
  \/ \E sym \in Symbols : SymbolEffect(sym)
  \/ \E s \in BagToSet(sockets) : s.ch = "depth" /\ WsOpen(s)
  \/ \E s \in BagToSet(sockets), ev \in DiffEvents : DepthMessage(s, ev)
  \/ \E f \in BagToSet(fetches) :
       \E s \in IF f.gen = session THEN Snapshots ELSE {NoScript.snap} :
         SnapshotOk(f, s)
  \/ \E f \in BagToSet(fetches) : SnapshotFail(f)
  \/ \E f \in BagToSet(fetches) : SnapshotMalformed(f)
  \/ \E f \in BagToSet(fetches) : RetryFire(f)

Spec == Init /\ [][Next]_vars

(***************************************************************************)
(* Specification of the connections: every channel may open, fail, close   *)
(* and reconnect; the feed carries one diff, one snapshot and one quote.    *)
(* Snapshot fetches succeed; trades are not delivered.                     *)
(***************************************************************************)
ConnDiff == Diff(1, 1, <<<<1, 1>>>>, <<>>)
ConnSnapshot == [lastUpdateId |-> 0, bids |-> <<>>, asks |-> <<<<1, 1>>>>]
ConnQuote == [bid |-> 1, ask |-> 2]

NextConn ==
  \/ \E sym \in Symbols : SymbolEffect(sym)
  \/ \E s \in BagToSet(sockets) : WsOpen(s)
  \/ \E s \in BagToSet(sockets) : WsError(s)
  \/ \E s \in BagToSet(sockets) : WsClose(s)
  \/ \E t \in BagToSet(timers) : ReconnectFire(t)
  \/ \E s \in BagToSet(sockets) : DepthMessage(s, ConnDiff)
  \/ \E s \in BagToSet(sockets) : TickerMessage(s, ConnQuote)
  \/ \E f \in BagToSet(fetches) : SnapshotOk(f, ConnSnapshot)

SpecConn == Init /\ [][NextConn]_vars

(***************************************************************************)
(* Specification of a scripted run: Init draws a snapshot and an in-order,  *)
(* gap-free list of diffs; after the mount the snapshot is served and the   *)
(* diffs are delivered one by one, before or after the snapshot's arrival.  *)
(***************************************************************************)
ChangeLists == ChangeListsOf(Prices, Qtys)

ScriptSnapshots ==
  [lastUpdateId : 0..1, bids : ChangeLists, asks : ChangeLists]

ScriptDiffs ==
  {Diff(r[1], r[2], pl[1], pl[2]) :
     r \in {x \in (1..MaxId) \X (1..MaxId) : x[1] <= x[2]},
     pl \in OneSided(ChangeLists)}

\* the first diff bridges the snapshot, each later one starts right after the
\* one before it
GapFree(s, ds) ==
  /\ Len(ds) > 0 => IsBridging(ds[1], s.lastUpdateId)
  /\ \A i \in 2..Len(ds) : ds[i].U = ds[i - 1].u + 1

Scripts ==
  {[snap |-> s, diffs |-> ds, pos |-> 0] :
     s \in ScriptSnapshots,
     ds \in {d \in SeqsUpTo(ScriptDiffs, MaxSteps) :
               \A i \in 2..Len(d) : d[i].U = d[i - 1].u + 1}}

InitReplay ==
  /\ InitPage
  /\ backoff = NoBackoff
  /\ script \in {sc \in Scripts : GapFree(sc.snap, sc.diffs)}

\* depth onmessage with the next diff of the script
ScriptDeliver(s) ==
  /\ BagIn(s, sockets) /\ s.ch = "depth" /\ s.st = "open"
  /\ s.gen = session
  /\ script.pos < Len(script.diffs)
  /\ ApplyDepth(script.diffs[script.pos + 1], s.sym, s.rows)
  /\ script' = [script EXCEPT !.pos = script.pos + 1]
  /\ UNCHANGED <<symbol, session, connVars, bestTicker, tradeVars, processed,
                 displayRows, hook, backoff>>

NextReplay ==
  \/ session = 0 /\ SymbolEffect("X")
  \/ \E s \in BagToSet(sockets) : s.ch = "depth" /\ WsOpen(s)
  \/ \E f \in BagToSet(fetches) : SnapshotOk(f, script.snap)
  \/ \E s \in BagToSet(sockets) : ScriptDeliver(s)

SpecReplay == InitReplay /\ [][NextReplay]_vars

(***************************************************************************)
(* Specification of the trade feed: trades arrive with increasing ids, the  *)
(* feed carries one snapshot and one diff, the frame callback runs.         *)
(***************************************************************************)
TradesSnapshot ==
  [lastUpdateId |-> 1, bids |-> <<<<100, 1>>>>, asks |-> <<<<101, 1>>>>]
TradesDiff == Diff(2, 2, <<<<99, 1>>>>, <<>>)

\* aggregate trade ids grow by one per trade of a symbol
NextTradeId == IF trades = <<>> THEN 1 ELSE trades[1].id + 1

NextTrades ==
  \/ \E sym \in Symbols : SymbolEffect(sym)
  \/ \E s \in BagToSet(sockets) : s.ch \in {"depth", "trades"} /\ WsOpen(s)
  \/ \E s \in BagToSet(sockets) :
       NextTradeId <= MaxTradeId /\ TradeMessage(s, NextTradeId)
  \/ \E id \in BagToSet(tradeTimers) : TradeClear(id)
  \/ \E s \in BagToSet(sockets) : DepthMessage(s, TradesDiff)
  \/ \E f \in BagToSet(fetches) : SnapshotOk(f, TradesSnapshot)
  \/ Flush

SpecTrades == Init /\ [][NextTrades]_vars

(***************************************************************************)
(* Specification of the isNew flash: any trade id may arrive, repeated ids  *)
(* included; every pending clear timer eventually fires.                    *)
(***************************************************************************)
MaxFlashId == 2
MaxFlashLen == 3
FlashIds == 1..MaxFlashId

NextFlash ==
  \/ \E sym \in Symbols : SymbolEffect(sym)
  \/ \E s \in BagToSet(sockets) : s.ch = "trades" /\ WsOpen(s)
  \/ \E s \in BagToSet(sockets), id \in FlashIds :
       Len(trades) < MaxFlashLen /\ TradeMessage(s, id)
  \/ \E id \in BagToSet(tradeTimers) : TradeClear(id)

SpecFlash ==
  /\ Init
  /\ [][NextFlash]_vars
  /\ \A id \in FlashIds : WF_vars(TradeClear(id))

(***************************************************************************)
(* Specification of the projection: the feed carries books that are normal, *)
(* deeper than the smallest row count, crossed, wider than the sanity       *)
(* ceiling or one-sided, and diffs that delete or add the best levels; the  *)
(* row slider moves; the frame callback runs.                               *)
(***************************************************************************)
ViewDepth == 6
ViewBid == 100

\* ViewDepth bid levels below and at ViewBid, two ask levels above
DeepBids == [i \in 1..ViewDepth |-> <<ViewBid + 1 - i, 1 + (i % 2)>>]

ViewSnapshots ==
  {[lastUpdateId |-> 1, bids |-> bl, asks |-> al] :
     bl \in {<<<<ViewBid, 1>>>>, DeepBids, <<<<ViewBid + 1, 1>>>>,
             <<<<ViewBid - 10, 1>>>>, <<>>},
     al \in {<<<<ViewBid + 1, 2>>, <<ViewBid + 2, 1>>>>}}

ViewDiffs ==
  {Diff(2, 2, pl[1], pl[2]) :
     pl \in {<< <<<<ViewBid, 0>>>>, <<>> >>,
             << <<<<ViewBid + 1, 1>>>>, <<>> >>,
             << <<>>, <<<<ViewBid + 1, 0>>>> >>,
             << <<>>, <<<<ViewBid, 1>>>> >>}}
  \cup {Diff(3, 3, <<>>, <<<<ViewBid + 2, 0>>>>)}

ViewQuote == [bid |-> ViewBid, ask |-> ViewBid + 1]

NextView ==
  \/ \E sym \in Symbols : SymbolEffect(sym)
  \/ \E s \in BagToSet(sockets) : s.ch \in {"depth", "ticker"} /\ WsOpen(s)
  \/ \E s \in BagToSet(sockets), ev \in ViewDiffs : DepthMessage(s, ev)
  \/ \E s \in BagToSet(sockets) : TickerMessage(s, ViewQuote)
  \/ \E f \in BagToSet(fetches), s \in ViewSnapshots : SnapshotOk(f, s)
  \/ \E n \in RowChoices : SetDisplayRows(n)
  \/ Flush

SpecView == Init /\ [][NextView]_vars

(***************************************************************************)
(* Specification of the reconcile: one generation; any diffs arrive before  *)
(* and after the snapshot, any snapshot is served, fetches succeed.         *)
(***************************************************************************)
NextReconcile ==
  \/ session = 0 /\ SymbolEffect("X")
  \/ \E s \in BagToSet(sockets) : s.ch = "depth" /\ WsOpen(s)
  \/ \E s \in BagToSet(sockets), ev \in DiffEvents : DepthMessage(s, ev)
  \/ \E f \in BagToSet(fetches), s \in Snapshots : SnapshotOk(f, s)

SpecReconcile == Init /\ [][NextReconcile]_vars

(***************************************************************************)
(* Specification of malformed depth messages: one generation; the feed      *)
(* carries one snapshot, two diffs in sequence, texts that are not JSON and *)
(* messages that parse but lack the ask changes.                            *)
(***************************************************************************)
MalformedSnapshot == [lastUpdateId |-> 1, bids |-> <<>>, asks |-> <<<<2, 1>>>>]

GoodDiffs == {Diff(i, i, <<<<1, 1>>>>, <<<<2, 2>>>>) : i \in 2..MaxId}

\* {U, u, b} without a
MalformedDiffs == {[U |-> i, u |-> i, b |-> <<<<1, 2>>>>] : i \in 2..MaxId}

\* depth onmessage: JSON.parse throws, the catch swallows it
DepthUnparsable(s) ==
  /\ BagIn(s, sockets) /\ s.ch = "depth" /\ s.st = "open"
  /\ outcome' = IF s.gen # session THEN outcome ELSE "unparsable"
  /\ UNCHANGED <<symbol, session, seqVars, fetches, connVars, bestTicker,
                 tradeVars, viewVars, script, hook, backoff>>

NextMalformed ==
  \/ session = 0 /\ SymbolEffect("X")
  \/ \E s \in BagToSet(sockets) : s.ch = "depth" /\ WsOpen(s)
  \/ \E s \in BagToSet(sockets), ev \in GoodDiffs \cup MalformedDiffs :
       DepthMessage(s, ev)
  \/ \E s \in BagToSet(sockets) : DepthUnparsable(s)
  \/ \E f \in BagToSet(fetches) : SnapshotOk(f, MalformedSnapshot)
  \/ \E f \in BagToSet(fetches) : RetryFire(f)
  \/ Flush

SpecMalformed == Init /\ [][NextMalformed]_vars

(***************************************************************************)
(* Specification of the streams of useBinanceSocket under one symbol: the   *)
(* component mounts; connections open, fail, close up to MaxAttempt times   *)
(* in a row and are reopened by their timers; open connections deliver      *)
(* messages.                                                                *)
(***************************************************************************)
NextHook ==
  \/ hook.phase = "created" /\ HookEffect("X")
  \/ \E s \in BagToSet(hook.sockets) : HookOpen(s)
  \/ \E s \in BagToSet(hook.sockets) : HookError(s)
  \/ \E s \in BagToSet(hook.sockets) :
       hook.attempts[s.ch] < MaxAttempt /\ HookClose(s)
  \/ \E t \in BagToSet(hook.timers) : HookReconnect(t)
  \/ \E s \in BagToSet(hook.sockets) : HookDepthMessage(s)
  \/ \E s \in BagToSet(hook.sockets) : HookTradeMessage(s)

SpecHook == Init /\ [][NextHook]_vars

(***************************************************************************)
(* Specification of the life cycle of useBinanceSocket: the component       *)
(* mounts, the symbol changes, the component unmounts; connections open,    *)
(* close and are reopened by their timers, open ones deliver messages.      *)
(***************************************************************************)
MaxSwitchAttempt == 1   \* closes in a row on one stream

NextHookSwitch ==
  \/ \E sym \in Symbols : HookEffect(sym)
  \/ HookUnmount
  \/ \E s \in BagToSet(hook.sockets) : HookOpen(s)
  \/ \E s \in BagToSet(hook.sockets) :
       hook.attempts[s.ch] < MaxSwitchAttempt /\ HookClose(s)
  \/ \E t \in BagToSet(hook.timers) : HookReconnect(t)
  \/ \E s \in BagToSet(hook.sockets) : HookDepthMessage(s)
  \/ \E s \in BagToSet(hook.sockets) : HookTradeMessage(s)

SpecHookSwitch == Init /\ [][NextHookSwitch]_vars

(***************************************************************************)
(* Specification of the reconnect delays of Page: one generation, every     *)
(* channel opens, closes and is reopened by its timer, the delays observed. *)
(***************************************************************************)
MaxCloses == 2       \* closes in a row on one channel

InitBackoff ==
  /\ InitPage
  /\ script = NoScript
  /\ backoff = [NoBackoff EXCEPT !.on = TRUE]

NextBackoff ==
  \/ session = 0 /\ SymbolEffect("X")
  \/ \E s \in BagToSet(sockets) : WsOpen(s)
  \/ \E s \in BagToSet(sockets) :
       backoff.closes[s.ch] < MaxCloses /\ WsClose(s)
  \/ \E t \in BagToSet(timers) : ReconnectFire(t)

SpecBackoff == InitBackoff /\ [][NextBackoff]_vars

(***************************************************************************)
(* Specification of the recovery of Page's channels in one generation: new  *)
(* WebSocket may throw at the mount; connections open, close or fail to     *)
(* connect; every armed reconnect timer fires.  Connections close only      *)
(* while the reopening by every pending timer fits in MaxRecoverSock live   *)
(* connections.                                                             *)
(***************************************************************************)
MaxRecoverSock == 8  \* connections alive at once

CloseFits ==
  BagCardinality(sockets) - 1
    + Cardinality(Channels) * (BagCardinality(timers) + 1) <= MaxRecoverSock

TimerFires ==
  \E t \in BagToSet(timers) : ReconnectFireUpTo(t, MaxRecoverSock, {})

NextRecover ==
  \/ \E failed \in SUBSET Channels :
       session = 0 /\ SymbolEffectWith("X", failed)
  \/ \E s \in BagToSet(sockets) : WsOpen(s)
  \/ \E s \in BagToSet(sockets) : CloseFits /\ WsClose(s)
  \/ TimerFires

SpecRecover == Init /\ [][NextRecover]_vars /\ WF_vars(TimerFires)

(***************************************************************************)
(* Specification of the reconcile against one snapshot: Init draws the      *)
(* snapshot the REST endpoint serves; one generation, any diffs arrive      *)
(* before and after the snapshot, fetches succeed.                          *)
(***************************************************************************)
InitServed ==
  /\ InitPage
  /\ backoff = NoBackoff
  /\ script \in {[snap |-> s, diffs |-> <<>>, pos |-> 0] : s \in Snapshots}

NextServed ==
  \/ session = 0 /\ SymbolEffect("X")
  \/ \E s \in BagToSet(sockets) : s.ch = "depth" /\ WsOpen(s)
  \/ \E s \in BagToSet(sockets), ev \in DiffEvents : DepthMessage(s, ev)
  \/ \E f \in BagToSet(fetches) : SnapshotOk(f, script.snap)

SpecServed == InitServed /\ [][NextServed]_vars

(***************************************************************************)
(* Specification of the quote fallback: one generation; the book is normal  *)
(* or locked, the best-quote stream carries a narrow and a wide quote, the  *)
(* frame callback runs.                                                     *)
(***************************************************************************)
QuoteSnapshots ==
  {[lastUpdateId |-> 1, bids |-> bl,
    asks |-> <<<<ViewBid + 1, 2>>, <<ViewBid + 2, 1>>>>] :
     bl \in {<<<<ViewBid, 1>>>>, <<<<ViewBid + 1, 1>>>>}}

WideQuote == [bid |-> ViewBid, ask |-> ViewBid + 20]

NextQuote ==
  \/ session = 0 /\ SymbolEffect("X")
  \/ \E s \in BagToSet(sockets) : s.ch \in {"depth", "ticker"} /\ WsOpen(s)
  \/ \E s \in BagToSet(sockets), ev \in ViewDiffs : DepthMessage(s, ev)
  \/ \E s \in BagToSet(sockets), q \in {ViewQuote, WideQuote} :
       TickerMessage(s, q)
  \/ \E f \in BagToSet(fetches), s \in QuoteSnapshots : SnapshotOk(f, s)
  \/ Flush

SpecQuote == Init /\ [][NextQuote]_vars

(***************************************************************************)
(* Specification of the recovery of the sequencer: one generation.  Init    *)
(* draws the diff stream of the exchange, one update id per diff, ids       *)
(* rising, some of them missing; the diffs that are there arrive in order.  *)
(* A fetch fails or succeeds; a snapshot served is not older than the       *)
(* buffered diffs.  The retry timer fires when pending, and a fetch that    *)
(* is retried again and again succeeds in the end.                          *)
(***************************************************************************)
LiveDiff(k) == Diff(k, k, <<<<1, k % 2>>>>, <<>>)

LiveStreams ==
  {ds \in SeqsUpTo({LiveDiff(k) : k \in 1..MaxId}, MaxId) :
     \A i \in 2..Len(ds) : ds[i].U > ds[i - 1].u}

LiveSnapshots ==
  {[lastUpdateId |-> i, bids |-> bl, asks |-> <<<<1, 1>>>>] :
     i \in Ids, bl \in {<<>>, <<<<1, 2>>>>}}

\* the snapshot covers the updates before the first buffered diff
NotOlder(s) ==
  \A i \in 1..Len(buffer) : s.lastUpdateId + 1 >= buffer[i].U

InitLive ==
  /\ InitPage
  /\ backoff = NoBackoff
  /\ script \in {[snap |-> NoScript.snap, diffs |-> ds, pos |-> 0] :
                   ds \in LiveStreams}

FetchSucceeds ==
  \E f \in BagToSet(fetches), s \in LiveSnapshots :
    NotOlder(s) /\ SnapshotOk(f, s)

RetryFires == \E f \in BagToSet(fetches) : RetryFire(f)

NextLive ==
  \/ session = 0 /\ SymbolEffect("X")
  \/ \E s \in BagToSet(sockets) : s.ch = "depth" /\ WsOpen(s)
  \/ \E s \in BagToSet(sockets) : ScriptDeliver(s)
  \/ FetchSucceeds
  \/ \E f \in BagToSet(fetches) : SnapshotFail(f)
  \/ RetryFires

SpecLive ==
  /\ InitLive
  /\ [][NextLive]_vars
  /\ WF_vars(session = 0 /\ SymbolEffect("X"))
  /\ WF_vars(RetryFires)
  /\ SF_vars(FetchSucceeds)

(***************************************************************************)
(* Properties.                                                             *)
(***************************************************************************)
AllPrices == Prices \cup {1}

\* the quantity the last change of a list gives price p, -1 when none does
RECURSIVE LastChange(_, _)
LastChange(changes, p) ==
  IF changes = <<>> THEN -1
  ELSE IF changes[Len(changes)][1] = p THEN changes[Len(changes)][2]
  ELSE LastChange(SubSeq(changes, 1, Len(changes) - 1), p)

\* new is old with the changes merged: a changed price holds its last
\* quantity, or is absent when that is 0; every other price is as before
MergedInto(old, new, changes) ==
  /\ DOMAIN new \subseteq AllPrices
  /\ \A p \in AllPrices :
       LET q == LastChange(changes, p)
       IN IF q = -1
          THEN /\ p \in DOMAIN new <=> p \in DOMAIN old
               /\ p \in DOMAIN old => new[p] = old[p]
          ELSE IF q = 0 THEN p \notin DOMAIN new
          ELSE p \in DOMAIN new /\ new[p] = q

\* the step is the depth onmessage of a current-generation socket with ev
Delivers(ev) ==
  \E s \in BagToSet(sockets) : s.gen = session /\ DepthMessage(s, ev)

CurrentFetches(fs, g) ==
  LET Cur(f) == f.gen = g IN CountIn(fs, Cur)

\* C1: with ready = true a delivered diff is applied (its changes merged into
\* the store, lastUpdateId set to its u) if and only if
\* U <= lastUpdateId + 1 <= u; any other diff leaves store and id unchanged.
C1_AppliedIffValid ==
  [][\A ev \in DiffEvents :
       (ready /\ Delivers(ev)) =>
         IF ev.U <= lastUpdateId + 1 /\ lastUpdateId + 1 <= ev.u
         THEN /\ MergedInto(bids, bids', ev.b)
              /\ MergedInto(asks, asks', ev.a)
              /\ lastUpdateId' = ev.u
         ELSE UNCHANGED <<bids, asks, lastUpdateId>>]_vars

C1_Witness ==
  /\ outcome = "applied"
  /\ ready
  /\ lastUpdateId = MaxId
  /\ DOMAIN bids # {}

\* C2: with ready = true a diff with U > lastUpdateId + 1 is never applied:
\* store and id stay, ready becomes false, the buffer is emptied and one
\* snapshot fetch is issued for the current generation.
C2_GapResyncs ==
  [][\A ev \in DiffEvents :
       (ready /\ ev.U > lastUpdateId + 1 /\ Delivers(ev)) =>
         /\ UNCHANGED <<bids, asks, lastUpdateId>>
         /\ ready' = FALSE
         /\ buffer' = <<>>
         /\ buffered' = 0
         /\ \E f \in BagToSet(fetches') :
              /\ f.gen = session /\ f.st = "fetch"
              /\ fetches' = fetches (+) One(f)]_vars

C2_Witness ==
  /\ outcome = "resync"
  /\ ~ready
  /\ buffer = <<>>
  /\ CurrentFetches(fetches, session) = 1

\* C3 as stated: a delivered diff with u <= lastUpdateId changes neither the
\* store, the id, ready nor the buffer and issues no fetch, whatever ready is.
C3_DiscardedAlways ==
  [][\A ev \in DiffEvents :
       (ev.u <= lastUpdateId /\ Delivers(ev)) =>
         UNCHANGED <<bids, asks, lastUpdateId, ready, buffer, fetches>>]_vars

\* C3 amended: with ready = true a delivered diff with u <= lastUpdateId
\* changes neither the store, the id, ready nor the buffer and issues no
\* fetch, however often it is delivered.
C3_DiscardedWhenReady ==
  [][\A ev \in DiffEvents :
       (ready /\ ev.u <= lastUpdateId /\ Delivers(ev)) =>
         UNCHANGED <<bids, asks, lastUpdateId, ready, buffer, buffered,
                     fetches>>]_vars

C3_Witness ==
  /\ outcome = "discarded"
  /\ ready
  /\ lastUpdateId > 0

\* C4: while ready = false a delivered diff is only appended to the pending
\* buffer; store and id stay unchanged.
C4_BufferedWhenNotReady ==
  [][\A ev \in DiffEvents :
       (~ready /\ Delivers(ev)) =>
         /\ buffer' = Append(buffer, ev)
         /\ UNCHANGED <<bids, asks, lastUpdateId, ready>>]_vars

C4_Witness ==
  /\ outcome = "buffered"
  /\ ~ready
  /\ Len(buffer) = MaxBuf
  /\ CurrentFetches(fetches, session) = 1
  /\ DOMAIN bids # {}

\* the reference store: the quantity of price p after the snapshot's
\* positive levels and the changes of the diffs ds, found from the newest
\* change backwards; 0 when the level does not exist
RECURSIVE SnapQty(_, _)
SnapQty(entries, p) ==
  IF entries = <<>> THEN 0
  ELSE LET e == entries[Len(entries)]
       IN IF e[1] = p /\ e[2] > 0 THEN e[2]
          ELSE SnapQty(SubSeq(entries, 1, Len(entries) - 1), p)

RECURSIVE RefQty(_, _, _, _)
RefQty(entries, ds, side, p) ==
  IF ds = <<>> THEN SnapQty(entries, p)
  ELSE LET q == LastChange(ds[Len(ds)][side], p)
       IN IF q # -1 THEN q
          ELSE RefQty(entries, SubSeq(ds, 1, Len(ds) - 1), side, p)

SameStore(m, entries, ds, side) ==
  /\ DOMAIN m = {p \in AllPrices : RefQty(entries, ds, side, p) > 0}
  /\ \A p \in DOMAIN m : m[p] = RefQty(entries, ds, side, p)

Delivered == SubSeq(script.diffs, 1, script.pos)

\* C5: after the snapshot and an in-order, gap-free run of diffs the store
\* equals the reference replay of the snapshot and the delivered diffs, and
\* lastUpdateId is the u of the last delivered diff.
C5_ReplayEquivalence ==
  ready =>
    /\ SameStore(bids, script.snap.bids, Delivered, "b")
    /\ SameStore(asks, script.snap.asks, Delivered, "a")
    /\ lastUpdateId = IF script.pos = 0 THEN script.snap.lastUpdateId
                      ELSE script.diffs[script.pos].u

C5_Witness ==
  /\ ready
  /\ outcome = "applied"
  /\ script.pos = MaxSteps
  /\ DOMAIN script.snap.bids # {}
  /\ DOMAIN bids = {}

\* C6: within one generation lastUpdateId never decreases.  Stated on the
\* steps that follow a gap-triggered resync, where ready was true before the
\* gap and lastUpdateId was therefore assigned under the same generation.
C6_IdMonotone ==
  [][(session' = session /\ outcome = "resync")
       => lastUpdateId' >= lastUpdateId]_vars

\* C7: at most one snapshot fetch (or its armed retry) is outstanding per
\* generation.
C7_OneFetchPerGen ==
  \A g \in 0..(MaxGen + 1) : CurrentFetches(fetches, g) <= 1

C7_Witness ==
  /\ outcome = "resync"
  /\ session = MaxGen
  /\ \E f \in BagToSet(fetches) : f.gen = session /\ f.st = "retry"
  /\ \E f \in BagToSet(fetches) : f.gen # session

\* the step is a completion issued under a generation that is not current
StaleCompletion ==
  \/ \E s \in BagToSet(sockets) :
       /\ s.gen # session
       /\ \/ WsOpen(s)
          \/ WsError(s)
          \/ WsClose(s)
          \/ \E ev \in DiffEvents \cup {ConnDiff} : DepthMessage(s, ev)
          \/ \E id \in TradeIds : TradeMessage(s, id)
          \/ \E q \in Quotes : TickerMessage(s, q)
  \/ \E t \in BagToSet(timers) : t.gen # session /\ ReconnectFire(t)
  \/ \E f \in BagToSet(fetches) :
       /\ f.gen # session
       /\ \/ \E s \in Snapshots \cup {ConnSnapshot} : SnapshotOk(f, s)
          \/ SnapshotMalformed(f)
          \/ RetryFire(f)

Connecting(socks) ==
  LET Conn(s) == s.st = "connecting" IN CountIn(socks, Conn)

\* C8: a completion issued under generation g that fires while the current
\* generation differs changes no state and opens no connection.
C8_StaleIgnored ==
  [][StaleCompletion =>
       /\ UNCHANGED <<seqVars, trades, bestTicker, connected, error, processed,
                      timers>>
       /\ Connecting(sockets') <= Connecting(sockets)]_vars

\* the step is a gap-triggered resync: applyDepth on a gap, or the replay of
\* loadSnapshot meeting one
GapResync ==
  \/ \E ev \in DiffEvents : ready /\ ev.U > lastUpdateId + 1 /\ Delivers(ev)
  \/ /\ outcome' = "replayGap"
     /\ \E f \in BagToSet(fetches), s \in Snapshots :
          f.gen = session /\ SnapshotOk(f, s)

SymbolChange == \E sym \in Symbols : SymbolEffect(sym)

\* C9 as stated: the generation strictly increases at every symbol change and
\* at every gap-triggered resync, and never decreases.
C9_ResyncBumpsGeneration ==
  [][/\ (SymbolChange \/ GapResync) => session' > session
     /\ session' >= session]_vars

\* C9 amended: the generation increases by one at every symbol change, is
\* left unchanged by a gap-triggered resync, and never decreases.
C9_OnlySwitchBumpsGeneration ==
  [][/\ SymbolChange => session' = session + 1
     /\ GapResync => session' = session
     /\ session' >= session]_vars

C9_Witness ==
  /\ session = MaxGen
  /\ outcome \in {"resync", "replayGap"}
  /\ CurrentFetches(fetches, session) = 1

OfChannel(B, ch) == LET On(x) == x.ch = ch IN Restrict(B, On)

\* C10: the close of a channel's connection under the current generation and
\* the reconnect timer it arms leave the connections and timers of the other
\* two channels unchanged.
C10_ChannelsIndependent ==
  [][\A ch \in Channels :
       (\/ \E s \in BagToSet(sockets) :
             s.ch = ch /\ s.gen = session /\ WsClose(s)
        \/ \E t \in BagToSet(timers) : t.ch = ch /\ ReconnectFire(t))
       => \A other \in Channels \ {ch} :
            /\ OfChannel(sockets', other) = OfChannel(sockets, other)
            /\ OfChannel(timers', other) = OfChannel(timers, other)]_vars

\* no level of the map holds quantity 0
NoZeroLevel(m) == \A p \in DOMAIN m : m[p] # 0

\* the prices whose last change in the list has quantity 0 are absent from m
ZeroRemoved(changes, m) ==
  \A p \in AllPrices : LastChange(changes, p) = 0 => p \notin DOMAIN m

\* C11: a quantity-0 change removes the level it names, and no reachable
\* state holds a level with quantity 0 on either side of the store.
C11_NoZeroLevels ==
  /\ [](NoZeroLevel(bids) /\ NoZeroLevel(asks))
  /\ [][(script'.pos = script.pos + 1 /\ outcome' = "applied")
          => /\ ZeroRemoved(script.diffs[script'.pos].b, bids')
             /\ ZeroRemoved(script.diffs[script'.pos].a, asks')]_vars

\* the first diff, applied live, deleted an ask level the snapshot had loaded
C11_Witness ==
  /\ ready
  /\ outcome = "applied"
  /\ script.pos = 1
  /\ SnapQty(script.snap.asks, 1) > 0
  /\ LastChange(script.diffs[1].a, 1) = 0
  /\ 1 \notin DOMAIN asks

\* the published projection has no rows, spread 0, spreadPercent 0, mid 0
IsEmptyProjection(pr) ==
  /\ pr.bids = <<>> /\ pr.asks = <<>>
  /\ pr.spread = 0 /\ pr.spreadPercent[1] = 0 /\ pr.midPrice[1] = 0

\* C12: right after every symbol change both store sides are empty, the
\* pending buffer is empty, ready is false, the trade list is empty and the
\* published projection is the empty one: nothing of the previous session
\* is left in them.
C12_FreshOnSwitch ==
  [][SymbolChange =>
       /\ bids' = <<>> /\ asks' = <<>>
       /\ buffer' = <<>> /\ buffered' = 0
       /\ ~ready'
       /\ trades' = <<>>
       /\ IsEmptyProjection(processed')]_vars

\* the switch to the second session has just run; the first session had
\* applied the feed's diff (id 2) and pushed trades whose timers still pend
C12_Witness ==
  /\ outcome = "switched"
  /\ session = 2
  /\ lastUpdateId = TradesDiff.u
  /\ tradeTimers # EmptyBag
  /\ trades = <<>>
  /\ DOMAIN bids = {} /\ DOMAIN asks = {}
  /\ IsEmptyProjection(processed)

\* the step is a push: one more clear timer is pending
TradePushed == BagCardinality(tradeTimers') > BagCardinality(tradeTimers)

\* C14: the trade list never holds more than 50 entries; a push puts the new
\* trade at index 0 and keeps the entries before it in their order, dropping
\* the oldest one when the list was full.
C14_TradesCapped ==
  /\ [](Len(trades) <= KeepTrades + 1)
  /\ [][TradePushed =>
          /\ Len(trades') = IF Len(trades) < KeepTrades + 1
                            THEN Len(trades) + 1 ELSE KeepTrades + 1
          /\ CopiesIn(trades'[1].id, tradeTimers')
               = CopiesIn(trades'[1].id, tradeTimers) + 1
          /\ \A i \in 2..Len(trades') : trades'[i] = trades[i - 1]]_vars

\* the list is full, the 51st trade is at the front and trade 1 was dropped
C14_Witness ==
  /\ Len(trades) = KeepTrades + 1
  /\ trades[1].id = KeepTrades + 2
  /\ trades[Len(trades)].id = 2

\* some entry with this id still flashes
FlashOn(id) == \E i \in 1..Len(trades) : trades[i].id = id /\ trades[i].isNew

C13_QuoteResetOnSwitch ==
  [][SymbolChange => bestTicker' = [bid |-> 0, ask |-> 0]]_vars

\* the best prices of the store
BestBid == MaxOf({PriceOf(p) : p \in DOMAIN bids})
BestAsk == MinOf({PriceOf(p) : p \in DOMAIN asks})

\* the frame callback that was pending has run on the store as it is now
Published == ready /\ rafId = 0 /\ outcome \in {"loaded", "applied"}

\* C16: flushView run with either side of the store empty publishes the
\* empty projection: no rows, spread 0, spreadPercent 0, mid 0.
C16_EmptySideEmptyProjection ==
  [][(Flush /\ (DOMAIN bids = {} \/ DOMAIN asks = {}))
       => IsEmptyProjection(processed')]_vars

C16_Witness ==
  /\ Published
  /\ DOMAIN bids = {} /\ DOMAIN asks # {}
  /\ IsEmptyProjection(processed)

\* C17: flushView run on a crossed or locked book (both sides non-empty,
\* bestAsk - bestBid <= 0) publishes no rows: the quote-only projection
\* (spread = ask - bid, mid = (ask + bid) / 2) when the cached quote has
\* ask > bid, the empty projection otherwise.
C17_CrossedFallsBack ==
  [][(Flush /\ DOMAIN bids # {} /\ DOMAIN asks # {} /\ BestAsk - BestBid <= 0)
       => /\ processed'.bids = <<>> /\ processed'.asks = <<>>
          /\ IF bestTicker.ask > bestTicker.bid
             THEN /\ processed'.spread = bestTicker.ask - bestTicker.bid
                  /\ 2 * processed'.midPrice[1]
                       = (bestTicker.ask + bestTicker.bid)
                           * processed'.midPrice[2]
             ELSE IsEmptyProjection(processed')]_vars

\* a locked or crossed book was flushed and the quote-only projection is out
C17_Witness ==
  /\ Published
  /\ DOMAIN bids # {} /\ DOMAIN asks # {}
  /\ BestAsk - BestBid <= 0
  /\ bestTicker.ask > bestTicker.bid
  /\ processed.bids = <<>> /\ processed.asks = <<>>
  /\ processed.spread = bestTicker.ask - bestTicker.bid

\* the rows of one side: totals are the running sums of the amounts
Cumulative(rows) ==
  \A i \in 1..Len(rows) :
    rows[i].total = rows[i].amount + (IF i = 1 THEN 0 ELSE rows[i - 1].total)

\* C18: in every published projection bid rows are strictly descending and
\* ask rows strictly ascending by price, each total is the sum of the amounts
\* down to its row, and maxBidTotal / maxAskTotal are the last rows' totals.
C18_RowsOrderedAndSummed ==
  /\ \A i \in 2..Len(processed.bids) :
       processed.bids[i].price < processed.bids[i - 1].price
  /\ \A i \in 2..Len(processed.asks) :
       processed.asks[i].price > processed.asks[i - 1].price
  /\ Cumulative(processed.bids) /\ Cumulative(processed.asks)
  /\ \A i \in 2..Len(processed.bids) :
       processed.bids[i].total >= processed.bids[i - 1].total
  /\ \A i \in 2..Len(processed.asks) :
       processed.asks[i].total >= processed.asks[i - 1].total
  /\ processed.bids # <<>>
       => processed.maxBidTotal = processed.bids[Len(processed.bids)].total
  /\ processed.asks # <<>>
       => processed.maxAskTotal = processed.asks[Len(processed.asks)].total

\* a projection with several rows of differing amounts on both sides
C18_Witness ==
  /\ Len(processed.bids) >= 3 /\ Len(processed.asks) >= 2
  /\ processed.bids[1].amount # processed.bids[2].amount
  /\ processed.maxBidTotal > processed.bids[1].total

\* C19: a published projection with rows has spread = bestAsk - bestBid >= 0,
\* mid = (bestAsk + bestBid) / 2, spreadPercent = spread / mid * 100, and
\* spreadPercent is at most 10.
C19_SpreadOfBestLevels ==
  [][(Flush /\ (processed'.bids # <<>> \/ processed'.asks # <<>>))
       => /\ processed'.spread = BestAsk - BestBid
          /\ processed'.spread >= 0
          /\ 2 * processed'.midPrice[1]
               = (BestAsk + BestBid) * processed'.midPrice[2]
          /\ processed'.spreadPercent[1] * (BestAsk + BestBid)
               = 200 * processed'.spread * processed'.spreadPercent[2]
          /\ processed'.spreadPercent[1] <= 10 * processed'.spreadPercent[2]]_vars

\* rows are out for the book as it is, two ticks wide
C19_Witness ==
  /\ Published
  /\ processed.bids # <<>> /\ processed.asks # <<>>
  /\ processed.spread = 2
  /\ processed.spread = BestAsk - BestBid

\* C20: a projection published by flushView has at most displayRows rows per
\* side, displayRows being the row count configured when it is published.
C20_RowsWithinConfigured ==
  [][Flush => /\ Len(processed'.bids) <= displayRows
              /\ Len(processed'.asks) <= displayRows]_vars

\* C29: the buffered counter equals the length of the pending buffer in every
\* reachable state, also after a snapshot load emptied the buffer and set
\* ready.
C29_BufferedIsLength == buffered = Len(buffer)

RemoveAt(s, i) == SubSeq(s, 1, i - 1) \o SubSeq(s, i + 1, Len(s))

\* the diffs of s by ascending firstUpdateId, equal ones in arrival order
RECURSIVE ByFirstId(_)
ByFirstId(s) ==
  IF s = <<>> THEN <<>>
  ELSE LET i == CHOOSE k \in 1..Len(s) :
                  /\ \A j \in 1..Len(s) : s[k].U <= s[j].U
                  /\ \A j \in 1..(k - 1) : s[j].U > s[k].U
       IN <<s[i]>> \o ByFirstId(RemoveAt(s, i))

\* the indexes of the diffs of buf with U <= id + 1 <= u
Bridges(buf, id) ==
  {i \in 1..Len(buf) : buf[i].U <= id + 1 /\ id + 1 <= buf[i].u}

\* the indexes after i at which the replay from i meets a gap
GapsAfter(buf, i) == {j \in (i + 1)..Len(buf) : buf[j].U > buf[j - 1].u + 1}

\* the step is the reconcile of snapshot s under the current generation
Reconciles(s) ==
  /\ outcome' \in {"loaded", "replayGap"}
  /\ \E f \in BagToSet(fetches) : f.gen = session /\ SnapshotOk(f, s)

\* the step leaves the snapshot s with the diffs ds merged in, the id last
ReconciledTo(s, ds, last) ==
  /\ SameStore(bids', s.bids, ds, "b")
  /\ SameStore(asks', s.asks, ds, "a")
  /\ lastUpdateId' = last
  /\ buffer' = <<>>

\* C30 as stated: with a bridging diff in the buffer, the diffs before the
\* first one are dropped and all from it onward applied, ending ready with the
\* id of the last buffered diff; with no diff ending at or after the snapshot
\* the store is the snapshot alone and ready.
C30_ReconcileAsStated ==
  [][\A s \in Snapshots :
       Reconciles(s) =>
         LET buf == ByFirstId(buffer)
             hits == Bridges(buf, s.lastUpdateId)
         IN /\ hits # {} =>
                 /\ ReconciledTo(s, SubSeq(buf, MinOf(hits), Len(buf)),
                                 buf[Len(buf)].u)
                 /\ ready'
            /\ (\A i \in 1..Len(buf) : buf[i].u < s.lastUpdateId) =>
                 /\ ReconciledTo(s, <<>>, s.lastUpdateId)
                 /\ ready']_vars

\* C30: as C30_ReconcileAsStated when no diff after the first bridging one
\* starts beyond the u of its predecessor plus one; when one does, the diffs
\* up to it are applied, the buffer is emptied, ready is false and a snapshot
\* fetch for the current generation is outstanding.
C30_Reconcile ==
  [][\A s \in Snapshots :
       Reconciles(s) =>
         LET buf == ByFirstId(buffer)
             hits == Bridges(buf, s.lastUpdateId)
         IN /\ hits # {} =>
                 LET i == MinOf(hits)
                     gaps == GapsAfter(buf, i)
                 IN IF gaps = {}
                    THEN /\ ReconciledTo(s, SubSeq(buf, i, Len(buf)),
                                         buf[Len(buf)].u)
                         /\ ready'
                    ELSE /\ ReconciledTo(s, SubSeq(buf, i, MinOf(gaps) - 1),
                                         buf[MinOf(gaps) - 1].u)
                         /\ ~ready'
                         /\ \E f \in BagToSet(fetches') :
                              f.gen = session /\ f.st = "fetch"
            /\ (\A i \in 1..Len(buf) : buf[i].u < s.lastUpdateId) =>
                 /\ ReconciledTo(s, <<>>, s.lastUpdateId)
                 /\ ready']_vars

\* a full buffer was reconciled up to the largest id and left levels
C30_Witness ==
  /\ outcome = "loaded"
  /\ ready /\ buffer = <<>>
  /\ buffered = MaxBuf
  /\ lastUpdateId = MaxId
  /\ DOMAIN bids # {}

\* the number of snapshot requests of generation g awaited in fs
AwaitedFetches(fs, g) ==
  LET Awaited(f) == f.gen = g /\ f.st = "fetch" IN CountIn(fs, Awaited)

\* C23: when the retry timer of a failed fetch of generation g fires, one
\* fetch for g is issued if g is the current generation; otherwise the timer
\* goes without a fetch and without any state change.  A snapshot response of
\* a stale generation changes neither store, lastUpdateId, buffer nor ready.
C23_RetryOnlyWhenCurrent ==
  [][/\ \A f \in BagToSet(fetches) :
          (f.st = "retry" /\ RetryFire(f)) =>
            /\ \A x \in BagToSet(fetches) :
                 x.st = "retry" =>
                   CopiesIn(x, fetches') =
                     CopiesIn(x, fetches) - (IF x = f THEN 1 ELSE 0)
            /\ \A g \in Gens :
                 AwaitedFetches(fetches', g) =
                   AwaitedFetches(fetches, g)
                     + (IF g = f.gen /\ g = session THEN 1 ELSE 0)
            /\ UNCHANGED <<symbol, session, seqVars, connVars, bestTicker,
                           tradeVars, viewVars, hook, backoff>>
     /\ \A f \in BagToSet(fetches) :
          (/\ f.st = "fetch" /\ f.gen # session
           /\ \E s \in Snapshots \cup {NoScript.snap} : SnapshotOk(f, s)) =>
            /\ UNCHANGED <<bids, asks, lastUpdateId, buffer, ready>>
            /\ \A g \in Gens :
                 AwaitedFetches(fetches', g) <= AwaitedFetches(fetches, g)]_vars

\* the retry timer of an abandoned generation is all that is left of the
\* snapshot loads while the current generation is loaded
C23_Witness ==
  /\ session = MaxGen
  /\ ready
  /\ outcome = "loaded"
  /\ \E f \in BagToSet(fetches) :
       f.st = "retry" /\ f.gen # session /\ fetches = One(f)

\* the step calls queueFlush: a diff is applied or a snapshot load completes
\* under the current generation
CallsQueueFlush ==
  \/ /\ outcome' = "applied"
     /\ \E s \in BagToSet(sockets), ev \in ViewDiffs :
          s.gen = session /\ DepthMessage(s, ev)
  \/ /\ outcome' = "loaded"
     /\ \E f \in BagToSet(fetches), s \in ViewSnapshots :
          f.gen = session /\ SnapshotOk(f, s)

\* C22: at most one flushView callback is pending at any time; a queueFlush
\* made while one is pending schedules nothing; the callback's run leaves
\* none pending; a queueFlush made after it ran schedules exactly one.
C22_FlushCoalesced ==
  /\ [](BagCardinality(frame) <= 1 /\ (rafId # 0 <=> frame # EmptyBag))
  /\ [][(CallsQueueFlush /\ frame # EmptyBag) => frame' = frame]_vars
  /\ [][(CallsQueueFlush /\ frame = EmptyBag)
          => BagCardinality(frame') = 1]_vars
  /\ [][Flush => (frame' = EmptyBag /\ rafId' = 0)]_vars

\* the snapshot and two diffs were applied and one callback is pending, the
\* projection not yet recomputed
C22_Witness ==
  /\ BagCardinality(frame) = 1
  /\ outcome = "applied"
  /\ lastUpdateId = 3
  /\ DOMAIN bids # {} /\ DOMAIN asks # {}
  /\ processed = EmptyProjection

\* the grouping multipliers of the projector's configuration
GroupingMultipliers == {1, 5}

\* max(tickSize * m, tickSize) in ticks
GroupingStep(m) == IF m > 1 THEN m ELSE 1

FloorTo(p, step) == p - (p % step)
CeilTo(p, step) == IF p % step = 0 THEN p ELSE p - (p % step) + step

\* the summed quantity of the levels of m whose bucket is b
RECURSIVE BucketSum(_, _, _, _)
BucketSum(m, keys, b, side) ==
  IF keys = {} THEN 0
  ELSE LET k == CHOOSE x \in keys : TRUE
           bk == IF side = "b" THEN FloorTo(PriceOf(k), b[2])
                 ELSE CeilTo(PriceOf(k), b[2])
       IN (IF bk = b[1] THEN m[k] ELSE 0)
          + BucketSum(m, keys \ {k}, b, side)

\* rows are the buckets of store m for the step: each price a multiple of
\* the step, each amount the sum of the levels falling in the bucket
GroupedRows(rows, m, step, side) ==
  \A i \in 1..Len(rows) :
    /\ rows[i].price % step = 0
    /\ rows[i].amount = BucketSum(m, DOMAIN m, <<rows[i].price, step>>, side)

\* C21: for every grouping multiplier the rows flushView publishes are the
\* buckets of the store for step = max(tick * multiplier, tick): bids floored,
\* asks ceiled, quantities of one bucket summed, row prices multiples of step.
C21_RowsGrouped ==
  [][Flush =>
       \A k \in GroupingMultipliers :
         /\ GroupedRows(processed'.bids, bids, GroupingStep(k), "b")
         /\ GroupedRows(processed'.asks, asks, GroupingStep(k), "a")]_vars

\* C26: a malformed depth message delivered while ready is dropped whole:
\* store, lastUpdateId, ready, buffer, trades and best quote stay as they are.
C26_MalformedDropped ==
  [][\A s \in BagToSet(sockets) :
       (/\ s.gen = session
        /\ ready
        /\ \/ DepthUnparsable(s)
           \/ \E ev \in MalformedDiffs : DepthMessage(s, ev))
         => UNCHANGED <<bids, asks, lastUpdateId, ready, buffer, trades,
                        bestTicker>>]_vars

\* the timers of channel ch
HookTimersOf(tms, ch) == LET On(t) == t.ch = ch IN Restrict(tms, On)

\* 1 s, 2 s, 4 s, 8 s, 16 s, then 30 s
StatedDelay(k) ==
  CASE k = 0 -> 1000 [] k = 1 -> 2000 [] k = 2 -> 4000 [] k = 3 -> 8000
    [] k = 4 -> 16000 [] OTHER -> 30000

\* C24: per stream of useBinanceSocket, the attempt counter is 0 after an
\* open, one more after each close and otherwise unchanged, so that it counts
\* the closes since the last open; the close after k such closes arms one
\* timer of delay min(1000 * 2^k, 30000); a close or an open on one stream
\* changes neither the counter nor the timers of the other.
C24_HookBackoff ==
  [][/\ \A s \in BagToSet(hook.sockets) :
          HookClose(s) =>
            LET k == hook.attempts[s.ch]
                t == HookTimer(s.ch, s.sym, StatedDelay(k), TRUE)
            IN /\ CopiesIn(t, hook'.timers) = CopiesIn(t, hook.timers) + 1
               /\ BagCardinality(HookTimersOf(hook'.timers, s.ch))
                    = BagCardinality(HookTimersOf(hook.timers, s.ch)) + 1
               /\ hook'.attempts[s.ch] = k + 1
               /\ \A c \in HookChannels \ {s.ch} :
                    /\ hook'.attempts[c] = hook.attempts[c]
                    /\ HookTimersOf(hook'.timers, c)
                         = HookTimersOf(hook.timers, c)
     /\ \A s \in BagToSet(hook.sockets) :
          HookOpen(s) =>
            /\ hook'.attempts[s.ch] = 0
            /\ hook'.timers = hook.timers
            /\ \A c \in HookChannels \ {s.ch} :
                 hook'.attempts[c] = hook.attempts[c]
     /\ \A c \in HookChannels :
          hook'.attempts[c] # hook.attempts[c] =>
            \E s \in BagToSet(hook.sockets) :
              s.ch = c /\ (HookClose(s) \/ HookOpen(s))]_vars

\* the depth stream closed MaxAttempt times in a row and waits the capped
\* delay while the trades stream is open with its counter at 0
C24_Witness ==
  /\ hook.attempts["depth"] = MaxAttempt
  /\ \E t \in BagToSet(hook.timers) : t.ch = "depth" /\ t.delay = MaxDelay
  /\ hook.attempts["trades"] = 0
  /\ \E s \in BagToSet(hook.sockets) : s.ch = "trades" /\ s.st = "open"

\* x was made for a symbol the hook has left behind
OfPreviousSymbol(x) == hook.phase = "unmounted" \/ x.sym # hook.symbol

\* C28: once the effect cleanup of useBinanceSocket has run, no connection of
\* a previous symbol is open, no reconnect timer of a previous symbol is
\* pending, and the order book and the trade list hold nothing delivered by
\* a previous symbol's connection.
C28_HookCleanedUp ==
  /\ \A s \in BagToSet(hook.sockets) : OfPreviousSymbol(s) => s.st # "open"
  /\ \A t \in BagToSet(hook.timers) : ~OfPreviousSymbol(t)
  /\ hook.orderBook \subseteq {hook.symbol}
  /\ hook.trades \subseteq {hook.symbol}

\* C25: in Page the delay of the reconnect timer armed by the close that
\* follows k closes in a row on its channel (none of them followed by an open)
\* is at least the channel's base delay times 2^k, up to the maximum.
C25_DelayGrows ==
  \A ch \in Channels :
    backoff.closes[ch] >= 1 =>
      LET want == DelayBase(ch) * 2^(backoff.closes[ch] - 1)
      IN backoff.delay[ch] >= (IF want < MaxDelay THEN want ELSE MaxDelay)

\* the pending reconnect timers of channel ch armed under generation g
ChannelTimers(tms, ch, g) ==
  LET Of(t) == t.ch = ch /\ t.gen = g IN CountIn(tms, Of)

\* no connection of channel ch made under the current generation is live
Down(ch) ==
  /\ session > 0
  /\ \A s \in BagToSet(sockets) : ~(s.ch = ch /\ s.gen = session)

\* C27 as stated: a channel without a live connection of the current
\* generation, because its connection closed or because new WebSocket threw,
\* gets a new connection unless the generation changes.
C27_RecoversAsStated ==
  \A ch \in Channels, g \in Gens :
    (session = g /\ Down(ch)) ~> (session # g \/ ~Down(ch))

\* C27: the close of a connection of the current generation arms a reconnect
\* timer for its channel; a pending timer of the current generation goes only
\* by firing, which calls openSockets and leaves a new connection for the
\* channel, or by a change of generation; and every such timer goes
\* eventually.
C27_ClosedRecovers ==
  /\ [][\A s \in BagToSet(sockets) :
          (s.gen = session /\ WsClose(s)) =>
            ChannelTimers(timers', s.ch, session)
              = ChannelTimers(timers, s.ch, session) + 1]_vars
  /\ [][\A ch \in Channels :
          (/\ ChannelTimers(timers', ch, session)
                < ChannelTimers(timers, ch, session)
           /\ session' = session) =>
            \E t \in BagToSet(timers) :
              /\ t.ch = ch
              /\ ReconnectFireUpTo(t, MaxRecoverSock, {})
              /\ BagIn(Sock(ch, t.sym, session, t.rows, "connecting", TRUE),
                       sockets')]_vars
  /\ \A ch \in Channels, g \in Gens :
       (session = g /\ ChannelTimers(timers, ch, g) > 0)
         ~> (session # g \/ ChannelTimers(timers, ch, g) = 0)

\* two channels closed, both timers have fired and every channel is open on
\* the connection its ref holds
C27_Witness ==
  /\ session = 1
  /\ timers = EmptyBag
  /\ BagCardinality(sockets) > 2 * Cardinality(Channels)
  /\ \A ch \in Channels :
       \E s \in BagToSet(sockets) : s.ch = ch /\ s.ref /\ s.st = "open"

\* the index at which the replay of buf starts after the snapshot id: the
\* first diff with U <= id + 1 <= u, else the first with u >= id, else 0
StartOfReplay(buf, id) ==
  LET late == {i \in 1..Len(buf) : buf[i].u >= id}
  IN IF Bridges(buf, id) # {} THEN MinOf(Bridges(buf, id))
     ELSE IF late # {} THEN MinOf(late)
     ELSE 0

\* the first index from i whose diff starts beyond the id applied so far plus
\* one, 0 when the replay from i meets none
RECURSIVE GapIndex(_, _, _)
GapIndex(buf, i, last) ==
  IF i > Len(buf) THEN 0
  ELSE IF buf[i].U > last + 1 THEN i
  ELSE GapIndex(buf, i + 1, buf[i].u)

\* the id applied last when the diffs i..(j - 1) of buf follow the snapshot id
ReplayedId(buf, i, j, id) == IF j > i THEN buf[j - 1].u ELSE id

\* C31: a buffered diff with U > lastUpdateId + 1 met by the replay of
\* loadSnapshot stops it: only the diffs replayed before it are merged into
\* the snapshot, the buffer is emptied, ready is false and one snapshot fetch
\* of the same generation is awaited; the reconcile that follows leaves the
\* levels of its own snapshot and replay only, none of the partial store.
C31_ReplayGapResyncs ==
  [][\A s \in Snapshots :
       Reconciles(s) =>
         LET buf == ByFirstId(buffer)
             i == StartOfReplay(buf, s.lastUpdateId)
             g == IF i = 0 THEN 0 ELSE GapIndex(buf, i, s.lastUpdateId)
             end == IF g = 0 THEN Len(buf) ELSE g - 1
             applied == IF i = 0 THEN <<>> ELSE SubSeq(buf, i, end)
         IN /\ g # 0 =>
                 /\ ReconciledTo(s, applied,
                                 ReplayedId(buf, i, g, s.lastUpdateId))
                 /\ ~ready'
                 /\ session' = session
                 /\ AwaitedFetches(fetches', session) = 1
                 /\ outcome' = "replayGap"
            /\ outcome = "replayGap" =>
                 /\ SameStore(bids', s.bids, applied, "b")
                 /\ SameStore(asks', s.asks, applied, "a")]_vars

\* the replay of a full buffer stopped at a gap after its first diff
C31_Witness ==
  /\ outcome = "replayGap"
  /\ ~ready /\ buffer = <<>>
  /\ buffered = MaxBuf
  /\ lastUpdateId = 1
  /\ DOMAIN bids # {}
  /\ AwaitedFetches(fetches, session) = 1

\* C32: the pending buffer is used only while ready is false: it is empty in
\* every state with ready = true, and a step that appends a diff to it starts
\* and ends with ready = false.
C32_BufferOnlyWhileNotReady ==
  /\ [](ready => buffer = <<>>)
  /\ [][Len(buffer') > Len(buffer) =>
          /\ ~ready /\ ~ready'
          /\ \E ev \in DiffEvents : Delivers(ev) /\ buffer' = Append(buffer, ev)
       ]_vars

\* the buffer was filled, reconciled and left empty, and a live diff was
\* applied on top, under the last generation
C32_Witness ==
  /\ ready /\ buffer = <<>>
  /\ outcome = "applied"
  /\ buffered = MaxBuf
  /\ session = MaxGen

\* no diff of ds starts beyond the id applied before it plus one, id being
\* applied before the first
Continuous(ds, id) ==
  \A k \in 1..Len(ds) :
    ds[k].U <= (IF k = 1 THEN id ELSE ds[k - 1].u) + 1

\* the step is the reconcile of the served snapshot under the current
\* generation
ReconcilesServed ==
  /\ outcome' \in {"loaded", "replayGap"}
  /\ \E f \in BagToSet(fetches) : f.gen = session /\ SnapshotOk(f, script.snap)

\* C33: a reconcile that ends with ready = true has applied, from the first
\* diff with U <= snapshotId + 1 <= u or else the first with u >= snapshotId,
\* all buffered diffs to the end, and none of them starts beyond the id
\* applied before it plus one: the chain starts at or before snapshotId + 1
\* and has no gap, on the fallback branch too.
C33_FallbackAdmitsNoGap ==
  [][(ReconcilesServed /\ ready') =>
       LET s == script.snap
           buf == ByFirstId(buffer)
           i == StartOfReplay(buf, s.lastUpdateId)
           applied == IF i = 0 THEN <<>> ELSE SubSeq(buf, i, Len(buf))
       IN /\ Continuous(applied, s.lastUpdateId)
          /\ ReconciledTo(s, applied,
                          IF i = 0 THEN s.lastUpdateId ELSE buf[Len(buf)].u)
    ]_vars

\* the fallback branch ended ready: the snapshot carries the largest id, so
\* no buffered diff bridges it, and a bid level the snapshot lacks was merged
\* from the buffer
C33_Witness ==
  /\ outcome = "loaded"
  /\ ready /\ buffer = <<>>
  /\ buffered > 0
  /\ script.snap.lastUpdateId = MaxId
  /\ script.snap.bids = <<>>
  /\ DOMAIN bids # {}

\* the diffs of buf from index i that carry new updates after the id last,
\* up to the first one that starts beyond the id applied before it plus one
RECURSIVE NewUpdates(_, _, _)
NewUpdates(buf, i, last) ==
  IF i > Len(buf) THEN <<>>
  ELSE IF buf[i].u <= last THEN NewUpdates(buf, i + 1, last)
  ELSE IF buf[i].U > last + 1 THEN <<>>
  ELSE <<buf[i]>> \o NewUpdates(buf, i + 1, buf[i].u)

\* C34: the replay of loadSnapshot applies a buffered diff only if its u is at
\* least lastUpdateId + 1: the store it leaves is the snapshot with the diffs
\* carrying new updates merged in, a diff with u <= lastUpdateId changing no
\* level, and lastUpdateId is never below the snapshot's id or the u of a diff
\* applied earlier.
C34_CoveredSkipped ==
  [][ReconcilesServed =>
       LET s == script.snap
           buf == ByFirstId(buffer)
           i == StartOfReplay(buf, s.lastUpdateId)
           applied == IF i = 0 THEN <<>>
                      ELSE NewUpdates(buf, i, s.lastUpdateId)
       IN /\ SameStore(bids', s.bids, applied, "b")
          /\ SameStore(asks', s.asks, applied, "a")
          /\ lastUpdateId' = IF applied = <<>> THEN s.lastUpdateId
                             ELSE applied[Len(applied)].u
    ]_vars

\* C35: no connection and no snapshot fetch made for another symbol than the
\* current one carries the current generation, so every message and snapshot
\* that passes the generation test was produced for the current symbol.
C35_CurrentGenerationIsCurrentSymbol ==
  /\ \A s \in BagToSet(sockets) : s.gen = session => s.sym = symbol
  /\ \A f \in BagToSet(fetches) : f.gen = session => f.sym = symbol

\* the number of connections of channel ch in socks whose handlers carry
\* generation g
LiveOn(socks, ch, g) ==
  LET Live(s) == s.ch = ch /\ s.gen = g IN CountIn(socks, Live)

\* C36: at most one connection per channel is open or connecting with
\* handlers of the current generation, so one message of the exchange reaches
\* its handler once.
C36_OneConnectionPerChannel ==
  \A ch \in Channels : LiveOn(sockets, ch, session) <= 1

\* C37: every projection flushView publishes, with rows or from the cached
\* best quote, has spread >= 0 and spreadPercent <= 10.
C37_PublishedSpreadSane ==
  [][Flush =>
       /\ processed'.spread >= 0
       /\ processed'.spreadPercent[1] <= 10 * processed'.spreadPercent[2]]_vars

\* a depth connection made under the current generation is open
DepthOpen ==
  \E s \in BagToSet(sockets) :
    s.ch = "depth" /\ s.gen = session /\ s.st = "open"

\* C38: the exposed connection status is true exactly when a diff-channel
\* connection of the current generation is open.
C38_ConnectedIffDepthOpen == connected <=> DepthOpen

\* the step is the delivery of the next diff of the stream
ScriptDelivers == \E s \in BagToSet(sockets) : ScriptDeliver(s)

\* the diffs of the stream still to come
Ahead == SubSeq(script.diffs, script.pos + 1, Len(script.diffs))

\* ready is true and stays true: no diff still to come starts beyond the id
\* applied before it plus one
Recovered == ready /\ Continuous(Ahead, lastUpdateId)

\* C39 as stated: ready eventually becomes true and stays true, and every diff
\* delivered once it stays true is applied: merged into the store, its u
\* becoming lastUpdateId.
C39_RecoversAsStated ==
  /\ <>[]ready
  /\ [][(Recovered /\ ScriptDelivers) =>
          /\ outcome' = "applied"
          /\ lastUpdateId' = Ahead[1].u]_vars

\* C39: ready eventually becomes true and stays true; a diff delivered once it
\* stays true is applied when it carries an update beyond lastUpdateId and
\* is dropped without effect when it carries none; ready stays true and
\* nothing is buffered.
C39_Recovers ==
  /\ <>[]ready
  /\ [][(Recovered /\ ScriptDelivers) =>
          /\ Recovered'
          /\ buffer' = <<>>
          /\ IF Ahead[1].u <= lastUpdateId
             THEN UNCHANGED <<bids, asks, lastUpdateId, fetches>>
             ELSE /\ MergedInto(bids, bids', Ahead[1].b)
                  /\ MergedInto(asks, asks', Ahead[1].a)
                  /\ lastUpdateId' = Ahead[1].u
                  /\ UNCHANGED fetches]_vars

\* the whole stream was delivered, a gap in it forced a resync, and the
\* snapshot load that followed left ready true
C39_Witness ==
  /\ ready
  /\ outcome = "loaded"
  /\ buffered = 0
  /\ script.pos > 0
  /\ script.pos = Len(script.diffs)
  /\ fetches = EmptyBag

====
